---- MODULE Spec2Model ----
(***************************************************************************)
(* Model of the CRUD engines of the repository.                            *)
(*                                                                         *)
(*  - the versioned (append-only) engine: CrudEngine / CrudOperations      *)
(*    (src/lib/src/core/crudEngine.ts) with its resolution helpers         *)
(*    getLatestRecords / getLatestRecordById (src/unnamed/part_011);       *)
(*  - the single-table engine GenericCrudEngine                            *)
(*    (src/lib/core/crud-engine.ts);                                       *)
(*  - the offline synchronisation service OfflineSyncService               *)
(*    (src/src/services/offline-sync.ts).                                  *)
(*                                                                         *)
(* The two engines are separate libraries; an application instantiates one *)
(* of them.  The variable `engine` records which one was constructed.      *)
(***************************************************************************)
EXTENDS Integers, Sequences, FiniteSets, TLC

VARIABLES
    engine,            \* which library the application constructed
    registeredModels,  \* CrudEngine.registeredModels (model names)
    registeredTables,  \* CrudOperations.registeredTables (model names)
    dbTables,          \* the models whose table exists in the database
    table,             \* rows of the registered model's table (versioned)
    uuidCount,         \* number of uuidv4() values drawn so far
    clock,             \* the wall clock read by `new Date()`
    gtable,            \* rows of the GenericCrudEngine's table
    gidCount,          \* number of ids drawn from the idGenerator so far
    last,              \* the last call made and what it returned
    inflight,          \* per caller: an update between its read and its insert
    query,             \* req.query of the HTTP request served
    params,            \* the QueryParams object handed to findMany / count
    filters,           \* the Filter list handed to FilterOp.toQueryParams
    result,            \* what the query call under study returned
    isOnline,          \* OfflineSyncService.isOnline
    operations,        \* OfflineSyncService.operations (the queue)
    server,            \* whether the backend is reachable and accepting
    delivered,         \* per operation: how often the backend accepted it
    execs,             \* per operation: its executeOperation call
    passes,            \* the running syncPendingOperations passes
    ping               \* the health request of the network detection

\* the variables of the offline synchronisation service
syncVars == <<isOnline, operations, server, delivered, execs, passes, ping>>

\* the variables of the engines, the query planner and the filter compiler
coreVars == <<engine, registeredModels, registeredTables, dbTables, table,
              uuidCount,
              clock, gtable, gidCount, last, inflight, query, params, filters,
              result>>

vars == <<coreVars, syncVars>>

\* the variables of the query planner and the filter compiler
queryVars == <<query, params, filters, result>>

----------------------------------------------------------------------------
(* Bounds of the model *)

MaxRows == 2          \* rows the versioned table may hold
MaxTime == 2          \* largest reading of the clock
MaxGIds == 2          \* ids GenericCrudEngine's idGenerator may hand out

----------------------------------------------------------------------------
(* Values *)

Engines == {"versioned", "generic"}
\* model names a caller may pass; the application defines a schema for
\* "item" and registers it, no schema exists for "ghost"
ModelNames == {"item", "ghost"}
Schemas == {"item"}
Workspaces == {1, 2}

NullDate == 0         \* SQL NULL in a timestamp column; real readings are >= 1
NoSuchId == 0         \* an id no create ever returned; real ids are >= 1

Keys == {"x", "y"}
Absent == 0           \* the key is not in the document
EmptyData == [k \in Keys |-> Absent]
DataX1 == [x |-> 1, y |-> Absent]
DataX2 == [x |-> 2, y |-> Absent]
DataY2 == [x |-> Absent, y |-> 2]

\* CreateRecordData inputs: {workspaceId, name, data?}
CreateInputs ==
    { [workspaceId |-> 1, name |-> "A", hasData |-> TRUE,  data |-> DataX1],
      [workspaceId |-> 2, name |-> "A", hasData |-> FALSE, data |-> EmptyData] }

\* updateData inputs: {name?, data?}
NoPatch == [hasName |-> FALSE, name |-> "", hasData |-> FALSE, data |-> EmptyData]
Patches ==
    { [hasName |-> TRUE,  name |-> "B", hasData |-> FALSE, data |-> EmptyData],
      [hasName |-> TRUE,  name |-> "",  hasData |-> TRUE,  data |-> DataX2],
      [hasName |-> FALSE, name |-> "",  hasData |-> TRUE,  data |-> DataY2] }

----------------------------------------------------------------------------
(* The clock: `new Date()` has millisecond resolution and never goes back;  *)
(* two consecutive calls may read the same value.                          *)

Readings == { t \in {clock, clock + 1} : t <= MaxTime }

----------------------------------------------------------------------------
(* recordUtils: getLatestRecords / getLatestRecordById *)

\* variant: ORDER BY updated_at ASC
RECURSIVE OrderByUpdatedAtAsc(_)
OrderByUpdatedAtAsc(S) ==
    IF S = {} THEN { <<>> }
    ELSE UNION { { <<r>> \o t : t \in OrderByUpdatedAtAsc(S \ {r}) } :
                 r \in { q \in S : \A p \in S : q.updatedAt <= p.updatedAt } }

\* SELECT ... ORDER BY updated_at DESC: every order of S that is descending
\* in updatedAt; rows with equal updatedAt come in an order the backend picks.
RECURSIVE OrderByUpdatedAtDesc(_)
OrderByUpdatedAtDesc(S) ==
    IF S = {} THEN { <<>> }
    ELSE UNION { { <<r>> \o t : t \in OrderByUpdatedAtDesc(S \ {r}) } :
                 r \in { q \in S : \A p \in S : p.updatedAt <= q.updatedAt } }

\* variant: the workspace condition left out of the WHERE clause
ActiveRowsAnyWorkspace(tbl, ws) ==
    { r \in tbl : r.deletedAt = NullDate }

\* variant: the deleted_at condition left out of the WHERE clause
RowsOfWorkspace(tbl, ws) ==
    { r \in tbl : r.workspaceId = ws }

\* rows matching workspace_id = ws AND deleted_at IS NULL
ActiveRows(tbl, ws) ==
    { r \in tbl : r.workspaceId = ws /\ r.deletedAt = NullDate }

\* getLatestRecords(db, table, workspaceId): the possible result lists
getLatestRecords(tbl, ws) == OrderByUpdatedAtDesc(ActiveRows(tbl, ws))

\* variant: the rows of the id whatever their deletedAt
getLatestRecordsOfIdAnyState(tbl, ws, id) ==
    OrderByUpdatedAtDesc({ r \in tbl : r.workspaceId = ws /\ r.id = id })

\* getLatestRecords(db, table, workspaceId, [eq(table.id, id)])
getLatestRecordsOfId(tbl, ws, id) ==
    OrderByUpdatedAtDesc({ r \in ActiveRows(tbl, ws) : r.id = id })

\* getLatestRecordById: records.length > 0 ? records[0] : null, as a list of
\* zero or one row
FirstOrNull(records) == IF Len(records) > 0 THEN <<records[1]>> ELSE <<>>

getLatestRecordById(tbl, ws, id) ==
    { FirstOrNull(records) : records \in getLatestRecordsOfId(tbl, ws, id) }

----------------------------------------------------------------------------
(* The record of the last call: model name, operation, arguments, outcome.  *)
(* `recs` is                                                                *)
(* the returned record as a list of one row, the returned list of getAll,   *)
(* or the empty list; `patch` is the updateData of an update that wrote a   *)
(* row; `fault` is the statement of the call that the backend rejected,    *)
(* "none" when it answered them all.                                        *)

CallOn(model, op, ws, id, patch, outcome, recs) ==
    [model |-> model, op |-> op, ws |-> ws, id |-> id, patch |-> patch,
     outcome |-> outcome, recs |-> recs, fault |-> "none"]

\* a call during which the backend rejected a statement
FaultCall(model, op, ws, id, fault, outcome) ==
    [CallOn(model, op, ws, id, NoPatch, outcome, <<>>) EXCEPT !.fault = fault]

\* a call that names no model (GenericCrudEngine is bound to one table)
Call(op, ws, id, patch, outcome, recs) ==
    CallOn("", op, ws, id, patch, outcome, recs)

NoCall == Call("none", 0, NoSuchId, NoPatch, "none", <<>>)

\* no query call made yet
NoResult == [op |-> "none"]

\* callers that may have an update under way at the same time
Procs == {1, 2}

\* a caller with no update under way
Idle == [pc |-> "idle", ws |-> 0, id |-> NoSuchId, patch |-> NoPatch,
         latest |-> <<>>, raced |-> FALSE, outcome |-> "none", recs |-> <<>>]

\* ids a caller may pass: every entity id handed out so far, and one that
\* never was
KnownIds == { r.id : r \in table } \cup {NoSuchId}

----------------------------------------------------------------------------
(* CrudOperations: the pure parts of the handlers *)

\* variant: the entity id is not generated anew
createRowSameEntity(input, now, entityId, rowId) ==
    [rowId |-> rowId,
     workspaceId |-> input.workspaceId,
     id |-> 1,
     name |-> input.name,
     data |-> IF input.hasData THEN input.data ELSE EmptyData,
     createdAt |-> now,
     updatedAt |-> now,
     deletedAt |-> NullDate]

\* the insertData of create
createRow(input, now, entityId, rowId) ==
    [rowId |-> rowId,
     workspaceId |-> input.workspaceId,
     id |-> entityId,
     name |-> input.name,
     data |-> IF input.hasData THEN input.data ELSE EmptyData,
     createdAt |-> now,
     updatedAt |-> now,
     deletedAt |-> NullDate]

\* { ...latestRecord.data, ...updateData.data }
mergeData(prior, patchData) ==
    [k \in Keys |-> IF patchData[k] # Absent THEN patchData[k] ELSE prior[k]]

\* updateData.name || latestRecord.name : the empty string is falsy
mergeName(priorName, patch) ==
    IF patch.hasName /\ patch.name # "" THEN patch.name ELSE priorName

\* variant: the new version stamped with its own creation time
updateRowOwnCreatedAt(latestRecord, patch, now, rowId) ==
    [rowId |-> rowId,
     workspaceId |-> latestRecord.workspaceId,
     id |-> latestRecord.id,
     name |-> IF patch.hasName /\ patch.name # "" THEN patch.name
              ELSE latestRecord.name,
     data |-> IF patch.hasData
              THEN [k \in Keys |-> IF patch.data[k] # Absent THEN patch.data[k]
                                   ELSE latestRecord.data[k]]
              ELSE latestRecord.data,
     createdAt |-> now,
     updatedAt |-> now,
     deletedAt |-> NullDate]

\* the newRecordData of update
updateRow(latestRecord, patch, now, rowId) ==
    [rowId |-> rowId,
     workspaceId |-> latestRecord.workspaceId,
     id |-> latestRecord.id,
     name |-> mergeName(latestRecord.name, patch),
     data |-> IF patch.hasData
              THEN mergeData(latestRecord.data, patch.data)
              ELSE latestRecord.data,
     createdAt |-> latestRecord.createdAt,
     updatedAt |-> now,
     deletedAt |-> NullDate]

\* variant: the UPDATE addressed by the entity id of the row, not its rowId
softDeleteTableById(tbl, rowId, now) ==
    { IF r.deletedAt = NullDate
         /\ \E q \in tbl : q.rowId = rowId /\ q.id = r.id
      THEN [r EXCEPT !.deletedAt = now, !.updatedAt = now]
      ELSE r : r \in tbl }

\* variant: the UPDATE without the deleted_at IS NULL condition
softDeleteMatchedAnyState(tbl, rowId) == { r \in tbl : r.rowId = rowId }

\* UPDATE ... SET deleted_at = now, updated_at = now
\*   WHERE row_id = rowId AND deleted_at IS NULL RETURNING *
softDeleteMatched(tbl, rowId) ==
    { r \in tbl : r.rowId = rowId /\ r.deletedAt = NullDate }

softDeleteTable(tbl, rowId, now) ==
    { IF r \in softDeleteMatched(tbl, rowId)
      THEN [r EXCEPT !.deletedAt = now, !.updatedAt = now]
      ELSE r : r \in tbl }

\* variant: the reduction with >= for >, so that the last row seen of an id
\* stays
RECURSIVE latestRecordsMapLastWins(_, _)
latestRecordsMapLastWins(records, acc) ==
    IF records = <<>> THEN acc
    ELSE LET record == Head(records)
             pos == { i \in 1..Len(acc) : acc[i].id = record.id }
         IN  IF pos = {}
             THEN latestRecordsMapLastWins(Tail(records), Append(acc, record))
             ELSE LET i == CHOOSE j \in pos : TRUE
                  IN  IF record.createdAt >= acc[i].createdAt
                      THEN latestRecordsMapLastWins(Tail(records),
                                                    [acc EXCEPT ![i] = record])
                      ELSE latestRecordsMapLastWins(Tail(records), acc)

\* getAll's reduction of the ordered active rows into a Map keyed by id:
\* the first row seen of an id stays unless a later one has a strictly
\* greater createdAt; Array.from(map.values()) lists them in insertion order
RECURSIVE latestRecordsMap(_, _)
latestRecordsMap(records, acc) ==
    IF records = <<>> THEN acc
    ELSE LET record == Head(records)
             pos == { i \in 1..Len(acc) : acc[i].id = record.id }
         IN  IF pos = {}
             THEN latestRecordsMap(Tail(records), Append(acc, record))
             ELSE LET i == CHOOSE j \in pos : TRUE
                  IN  IF record.createdAt > acc[i].createdAt
                      THEN latestRecordsMap(Tail(records),
                                            [acc EXCEPT ![i] = record])
                      ELSE latestRecordsMap(Tail(records), acc)

\* the possible results of getAll(model, ws)
getAllResults(tbl, ws) ==
    { latestRecordsMap(records, <<>>) : records \in getLatestRecords(tbl, ws) }

\* variant: the statement replaces the rows of the entity by the new row
replaceRows(tbl, row) ==
    { r \in tbl : ~(r.workspaceId = row.workspaceId /\ r.id = row.id) }
        \cup {row}

\* db.insert(table).values(row).returning(): the table after the statement
insertRow(tbl, row) == tbl \cup {row}

----------------------------------------------------------------------------
(* CrudEngine facade over CrudOperations: one action per public operation.  *)
(* Each action is the facade method with the CrudOperations method it      *)
(* awaits.                                                                  *)

\* variant: validateModelExists and the registeredTables lookup left out
RegisteredAlways(m) == TRUE

\* validateModelExists, then the registeredTables lookup of CrudOperations
Registered(m) == m \in registeredModels /\ m \in registeredTables

\* the statements of the operations on model m reach a table that exists
TableExists(m) == m \in dbTables

\* the call is rejected before its arguments are looked at: the record keeps
\* the operation only
NotRegisteredCall(m, op) ==
    /\ last' = CallOn(m, op, 0, NoSuchId, NoPatch, "throw:not-registered", <<>>)
    /\ UNCHANGED <<dbTables, syncVars, queryVars, inflight>>
    /\ UNCHANGED <<engine, registeredModels, registeredTables, table,
                   uuidCount, clock, gtable, gidCount>>

\* the model is registered but its CREATE TABLE was rejected: the first
\* statement of the call is rejected by the backend
NoTableCall(m, op, ws, id, statement) ==
    /\ last' = FaultCall(m, op, ws, id, statement, "throw:backend")
    /\ UNCHANGED <<dbTables, syncVars, queryVars, inflight>>
    /\ UNCHANGED <<engine, registeredModels, registeredTables, table,
                   uuidCount, clock, gtable, gidCount>>

\* register(modelName, schema): CREATE TABLE IF NOT EXISTS succeeds
Register(m) ==
    /\ engine = "versioned"
    /\ registeredModels' = registeredModels \cup {m}
    /\ registeredTables' = registeredTables \cup {m}
    /\ dbTables' = dbTables \cup {m}
    /\ last' = CallOn(m, "register", 0, NoSuchId, NoPatch, "void", <<>>)
    /\ UNCHANGED <<syncVars, queryVars, inflight>>
    /\ UNCHANGED <<engine, table, uuidCount, clock, gtable, gidCount>>

Create(m, input) ==
    /\ engine = "versioned"
    /\ IF ~Registered(m)
       THEN NotRegisteredCall(m, "create")
       ELSE IF ~TableExists(m)
       THEN NoTableCall(m, "create", input.workspaceId, NoSuchId, "write")
       ELSE /\ Cardinality(table) < MaxRows
            /\ \E now \in Readings :
                 LET row == createRow(input, now, uuidCount + 1, uuidCount + 2)
                 IN  /\ table' = insertRow(table, row)
                     /\ uuidCount' = uuidCount + 2
                     /\ clock' = now
                     /\ last' = CallOn(m, "create", input.workspaceId, row.id,
                                     NoPatch, "record", <<row>>)
            /\ UNCHANGED <<dbTables, syncVars, queryVars, inflight>>
            /\ UNCHANGED <<engine, registeredModels, registeredTables,
                           gtable, gidCount>>

Get(m, ws, id) ==
    /\ engine = "versioned"
    /\ IF ~Registered(m)
       THEN NotRegisteredCall(m, "get")
       ELSE IF ~TableExists(m)
       THEN NoTableCall(m, "get", ws, id, "read")
       ELSE /\ \E res \in getLatestRecordById(table, ws, id) :
                 last' = CallOn(m, "get", ws, id, NoPatch,
                              IF res = <<>> THEN "null" ELSE "record", res)
            /\ UNCHANGED <<dbTables, syncVars, queryVars, inflight>>
            /\ UNCHANGED <<engine, registeredModels, registeredTables, table,
                           uuidCount, clock, gtable, gidCount>>

GetAll(m, ws) ==
    /\ engine = "versioned"
    /\ IF ~Registered(m)
       THEN NotRegisteredCall(m, "getAll")
       ELSE IF ~TableExists(m)
       THEN NoTableCall(m, "getAll", ws, NoSuchId, "read")
       ELSE /\ \E res \in getAllResults(table, ws) :
                 last' = CallOn(m, "getAll", ws, NoSuchId, NoPatch, "list", res)
            /\ UNCHANGED <<dbTables, syncVars, queryVars, inflight>>
            /\ UNCHANGED <<engine, registeredModels, registeredTables, table,
                           uuidCount, clock, gtable, gidCount>>

Update(m, ws, id, patch) ==
    /\ engine = "versioned"
    /\ IF ~Registered(m)
       THEN NotRegisteredCall(m, "update")
       ELSE IF ~TableExists(m)
       THEN NoTableCall(m, "update", ws, id, "read")
       ELSE /\ \E latest \in getLatestRecordById(table, ws, id) :
                 IF latest = <<>>
                 THEN /\ last' = CallOn(m, "update", ws, id, NoPatch,
                                      "throw:no-active-record", <<>>)
                      /\ UNCHANGED <<table, uuidCount, clock>>
                 ELSE /\ Cardinality(table) < MaxRows
                      /\ \E now \in Readings :
                           LET row == updateRow(latest[1], patch, now,
                                                uuidCount + 1)
                           IN  /\ table' = insertRow(table, row)
                               /\ uuidCount' = uuidCount + 1
                               /\ clock' = now
                               /\ last' = CallOn(m, "update", ws, id, patch,
                                               "record", <<row>>)
            /\ UNCHANGED <<dbTables, syncVars, queryVars, inflight>>
            /\ UNCHANGED <<engine, registeredModels, registeredTables,
                           gtable, gidCount>>

Delete(m, ws, id) ==
    /\ engine = "versioned"
    /\ IF ~Registered(m)
       THEN NotRegisteredCall(m, "delete")
       ELSE IF ~TableExists(m)
       THEN NoTableCall(m, "delete", ws, id, "read")
       ELSE /\ \E active \in getLatestRecordById(table, ws, id) :
                 IF active = <<>>
                 THEN /\ last' = CallOn(m, "delete", ws, id, NoPatch, "false", <<>>)
                      /\ UNCHANGED <<table, clock>>
                 ELSE \E now \in Readings :
                        /\ table' = softDeleteTable(table, active[1].rowId, now)
                        /\ clock' = now
                        /\ last' = CallOn(m, "delete", ws, id, NoPatch,
                                        IF softDeleteMatched(table,
                                               active[1].rowId) # {}
                                        THEN "true" ELSE "false", <<>>)
            /\ UNCHANGED <<dbTables, syncVars, queryVars, inflight>>
            /\ UNCHANGED <<engine, registeredModels, registeredTables,
                           uuidCount, gtable, gidCount>>

----------------------------------------------------------------------------
(* CrudOperations.update as the two statements it awaits, so that the       *)
(* updates of two callers can interleave: the SELECT of getLatestRecordById *)
(* (and the throw when it finds nothing), then the INSERT of the new        *)
(* version.  Nothing is held between the two.                               *)

\* rows the table may hold when the updates of the callers are under way
MaxConcRows == MaxRows + 1

\* validateModelExists, registeredTables.get, getLatestRecordById, and the
\* throw when no active record is found
UpdateResolve(p, m, ws, id, patch) ==
    /\ engine = "versioned"
    /\ inflight[p].pc = "idle"
    /\ IF ~Registered(m)
       THEN inflight' = [inflight EXCEPT ![p] =
                [Idle EXCEPT !.pc = "done", !.outcome = "throw:not-registered"]]
       ELSE \E latest \in getLatestRecordById(table, ws, id) :
              IF latest = <<>>
              THEN inflight' = [inflight EXCEPT ![p] =
                       [Idle EXCEPT !.pc = "done", !.ws = ws, !.id = id,
                                    !.outcome = "throw:no-active-record"]]
              ELSE inflight' = [inflight EXCEPT ![p] =
                       [Idle EXCEPT !.pc = "resolved", !.ws = ws, !.id = id,
                                    !.patch = patch, !.latest = latest,
                                    !.raced = \E q \in Procs \ {p} :
                                        /\ inflight[q].pc = "resolved"
                                        /\ inflight[q].ws = ws
                                        /\ inflight[q].id = id]]
    /\ UNCHANGED <<dbTables, syncVars, queryVars, engine, registeredModels, registeredTables,
                   table, uuidCount, clock, gtable, gidCount, last>>

\* variant: compare-and-append, the insert refused when the entity has a row
\* appended after the version read
UpdateInsertChecked(p) ==
    /\ engine = "versioned"
    /\ inflight[p].pc = "resolved"
    /\ IF \A r \in table :
            (r.workspaceId = inflight[p].ws /\ r.id = inflight[p].id)
               => r.rowId <= inflight[p].latest[1].rowId
       THEN /\ Cardinality(table) < MaxConcRows
            /\ \E now \in Readings :
                 LET row == updateRow(inflight[p].latest[1], inflight[p].patch,
                                      now, uuidCount + 1)
                 IN  /\ table' = insertRow(table, row)
                     /\ uuidCount' = uuidCount + 1
                     /\ clock' = now
                     /\ inflight' = [inflight EXCEPT ![p].pc = "done",
                                                     ![p].outcome = "record",
                                                     ![p].recs = <<row>>]
       ELSE /\ inflight' = [inflight EXCEPT ![p].pc = "done",
                                            ![p].outcome = "throw:conflict"]
            /\ UNCHANGED <<table, uuidCount, clock>>
    /\ UNCHANGED <<dbTables, syncVars, queryVars, engine, registeredModels, registeredTables,
                   gtable, gidCount, last>>

\* new Date(), uuidv4(), the INSERT of newRecordData, and the return of
\* result[0]
UpdateInsert(p) ==
    /\ engine = "versioned"
    /\ inflight[p].pc = "resolved"
    /\ Cardinality(table) < MaxConcRows
    /\ \E now \in Readings :
         LET row == updateRow(inflight[p].latest[1], inflight[p].patch,
                              now, uuidCount + 1)
         IN  /\ table' = insertRow(table, row)
             /\ uuidCount' = uuidCount + 1
             /\ clock' = now
             /\ inflight' = [inflight EXCEPT ![p].pc = "done",
                                             ![p].outcome = "record",
                                             ![p].recs = <<row>>]
    /\ UNCHANGED <<dbTables, syncVars, queryVars, engine, registeredModels, registeredTables,
                   gtable, gidCount, last>>

----------------------------------------------------------------------------
(* GenericCrudEngine over the standard table (createStandardTable):         *)
(* id unique, name NOT NULL, data DEFAULT '{}', created_at / updated_at     *)
(* DEFAULT CURRENT_TIMESTAMP, deleted_at nullable.  The serial column wid   *)
(* is not read by any operation and is left out.                            *)

GCreateInputs == { [name |-> "A", hasData |-> TRUE, data |-> DataX1] }

GKnownIds == { r.id : r \in gtable } \cup {NoSuchId}

\* WHERE id = $id [AND deleted_at IS NULL]
gMatching(tbl, id, includeDeleted) ==
    { r \in tbl : r.id = id /\ (includeDeleted \/ r.deleted_at = NullDate) }

\* ... LIMIT 1 : result[0] || null, as a list of zero or one row
gLimit1(S) == IF S = {} THEN { <<>> } ELSE { <<r>> : r \in S }

\* the row stored for newRecord = {...data, id, created_at: new Date()}
gCreateRow(input, id, now) ==
    [id |-> id,
     name |-> input.name,
     data |-> IF input.hasData THEN input.data ELSE EmptyData,
     created_at |-> now,
     updated_at |-> now,
     deleted_at |-> NullDate]

\* the row stored for newRecordData = {...data, id: idGenerator(),
\*   created_at: parent.created_at, updated_at: new Date()}
gUpdateRow(parent, patch, id, now) ==
    [id |-> id,
     name |-> patch.name,
     data |-> IF patch.hasData THEN patch.data ELSE EmptyData,
     created_at |-> parent.created_at,
     updated_at |-> now,
     deleted_at |-> NullDate]

\* variant: DELETE FROM ... WHERE id = $id AND deleted_at IS NULL
gHardDeleteTable(tbl, id, now) == tbl \ gMatching(tbl, id, FALSE)

\* UPDATE ... SET deleted_at = now WHERE id = $id AND deleted_at IS NULL
gSoftDeleteTable(tbl, id, now) ==
    { IF r \in gMatching(tbl, id, FALSE)
      THEN [r EXCEPT !.deleted_at = now]
      ELSE r : r \in tbl }

GCreate(input) ==
    /\ engine = "generic"
    /\ gidCount < MaxGIds
    /\ \E now \in Readings :
         LET row == gCreateRow(input, gidCount + 1, now)
         IN  /\ gtable' = gtable \cup {row}
             /\ gidCount' = gidCount + 1
             /\ clock' = now
             /\ last' = Call("gcreate", 0, row.id, NoPatch, "record", <<row>>)
    /\ UNCHANGED <<dbTables, syncVars, queryVars, inflight>>
    /\ UNCHANGED <<engine, registeredModels, registeredTables, table, uuidCount>>

GFindById(id, includeDeleted) ==
    /\ engine = "generic"
    /\ \E res \in gLimit1(gMatching(gtable, id, includeDeleted)) :
         last' = Call(IF includeDeleted THEN "gfindByIdDeleted" ELSE "gfindById",
                      0, id, NoPatch,
                      IF res = <<>> THEN "null" ELSE "record", res)
    /\ UNCHANGED <<dbTables, syncVars, queryVars, inflight>>
    /\ UNCHANGED <<engine, registeredModels, registeredTables, table,
                   uuidCount, clock, gtable, gidCount>>

GUpdate(id, patch) ==
    /\ engine = "generic"
    /\ \E parentRecord \in gLimit1(gMatching(gtable, id, FALSE)) :
         IF parentRecord = <<>>
         THEN /\ last' = Call("gupdate", 0, id, patch, "null", <<>>)
              /\ UNCHANGED <<gtable, gidCount, clock>>
         ELSE \E now \in Readings :
                /\ gidCount < MaxGIds
                /\ clock' = now
                /\ gidCount' = gidCount + 1
                /\ IF ~patch.hasName
                   THEN \* NOT NULL violation on name: the insert is rejected
                        /\ last' = Call("gupdate", 0, id, NoPatch,
                                        "throw:backend", <<>>)
                        /\ UNCHANGED gtable
                   ELSE /\ LET row == gUpdateRow(parentRecord[1], patch,
                                                 gidCount + 1, now)
                           IN  /\ gtable' = gtable \cup {row}
                               /\ last' = Call("gupdate", 0, id, patch,
                                               "record", <<row>>)
    /\ UNCHANGED <<dbTables, syncVars, queryVars, inflight>>
    /\ UNCHANGED <<engine, registeredModels, registeredTables, table, uuidCount>>

GDelete(id) ==
    /\ engine = "generic"
    /\ IF gMatching(gtable, id, FALSE) = {}
       THEN /\ last' = Call("gdelete", 0, id, NoPatch, "false", <<>>)
            /\ UNCHANGED <<gtable, clock>>
       ELSE \E now \in Readings :
              /\ gtable' = gSoftDeleteTable(gtable, id, now)
              /\ clock' = now
              /\ last' = Call("gdelete", 0, id, NoPatch, "true", <<>>)
    /\ UNCHANGED <<dbTables, syncVars, queryVars, inflight>>
    /\ UNCHANGED <<engine, registeredModels, registeredTables, table,
                   uuidCount, gidCount>>

----------------------------------------------------------------------------
(* JavaScript values that reach the query code, tagged by type.  A string   *)
(* is kept in the form the code takes it apart: a key as the list of its    *)
(* segments between underscores ("created_at" is <<"created", "at">>), a   *)
(* sort or select expression as the list of its comma separated names.     *)

Undefined == <<"undefined">>
Num(n) == <<"number", n>>
Bool(b) == <<"boolean", b>>
Str(s) == <<"string", s>>        \* a string other than the ones below
NumStr(n) == <<"numeral", n>>    \* the string of the decimal digits of n
Csv(names) == <<"csv", names>>   \* "a,b_c" is Csv(<<<<"a">>, <<"b", "c">>>>)

\* the object as Object.entries lists it: [key, value] in insertion order
Entry(key, value) == [key |-> key, value |-> value]

HasKey(obj, key) == \E i \in 1..Len(obj) : obj[i].key = key

\* obj[key]
GetParam(obj, key) ==
    IF HasKey(obj, key)
    THEN obj[CHOOSE i \in 1..Len(obj) : obj[i].key = key].value
    ELSE Undefined

\* obj[key] = value: an existing key keeps its place
SetParam(obj, key, value) ==
    IF HasKey(obj, key)
    THEN [i \in 1..Len(obj) |->
            IF obj[i].key = key THEN Entry(key, value) ELSE obj[i]]
    ELSE Append(obj, Entry(key, value))

----------------------------------------------------------------------------
(* FilterOp: the filter compiler of CrudHandler (helpers/filterOperator)   *)
(* and the one of GenericCrudEngine (lib)                                   *)

RESERVED_QUERY_PARAMS ==
    { <<"page">>, <<"limit">>, <<"sort">>, <<"select">>, <<"deleted">> }

Filter(field, operator, value) ==
    [field |-> field, operator |-> operator, value |-> value]

\* operatorMappings, in the order they are tried
operatorMappings ==
    <<"prefix", "suffix", "substr", "lte", "gte", "ne", "lt", "gt", "in">>

\* key.endsWith('_' + suffix)
endsWith(key, suffix) == Len(key) >= 2 /\ key[Len(key)] = suffix

\* CrudHandler's FilterOp.parseFieldAndOperator: <<field, operator>>
parseFieldAndOperator(key) ==
    LET hits == { i \in 1..Len(operatorMappings) :
                    endsWith(key, operatorMappings[i]) }
    IN  IF hits = {}
        THEN <<key, "eq">>
        ELSE LET first == CHOOSE i \in hits : \A j \in hits : i <= j
             IN  <<SubSeq(key, 1, Len(key) - 1), operatorMappings[first]>>

\* CrudHandler's FilterOp.fromQueryParams
RECURSIVE fromQueryParams(_)
fromQueryParams(obj) ==
    IF obj = <<>> THEN <<>>
    ELSE IF Head(obj).key \in RESERVED_QUERY_PARAMS
         THEN fromQueryParams(Tail(obj))
         ELSE LET fo == parseFieldAndOperator(Head(obj).key)
              IN  <<Filter(fo[1], fo[2], Head(obj).value)>>
                      \o fromQueryParams(Tail(obj))

\* the operators of the pattern /^(eq|ne|gt|lt|gte|lte|in|prefix|suffix|substr)_(.+)$/
prefixOperators ==
    {"eq", "ne", "gt", "lt", "gte", "lte", "in", "prefix", "suffix", "substr"}

\* key.match(pattern): the operator is the first segment, the field the
\* rest of the key, which must not be empty
operatorMatch(key) ==
    /\ Len(key) >= 2
    /\ key[1] \in prefixOperators
    /\ Tail(key) # <<"">>

\* GenericCrudEngine's FilterOp.fromQueryParams
RECURSIVE gFromQueryParams(_)
gFromQueryParams(obj) ==
    IF obj = <<>> THEN <<>>
    ELSE IF Head(obj).key \in RESERVED_QUERY_PARAMS
         THEN gFromQueryParams(Tail(obj))
         ELSE (IF operatorMatch(Head(obj).key)
               THEN <<Filter(Tail(Head(obj).key), Head(obj).key[1],
                             Head(obj).value)>>
               ELSE <<Filter(Head(obj).key, "eq", Head(obj).value)>>)
                  \o gFromQueryParams(Tail(obj))

\* CrudHandler's FilterOp.toQueryParams, the entries added to acc
RECURSIVE toQueryParams(_, _)
toQueryParams(fs, acc) ==
    IF fs = <<>> THEN acc
    ELSE LET filter == Head(fs)
             key == IF filter.operator = "eq"
                    THEN filter.field
                    ELSE Append(filter.field, filter.operator)
         IN  toQueryParams(Tail(fs), SetParam(acc, key, filter.value))

----------------------------------------------------------------------------
(* The query planner: findMany and count of CrudHandler ("handler") and of  *)
(* GenericCrudEngine ("generic") over the standard table, and the list      *)
(* route over GenericCrudEngine.                                            *)

QueryEngines == {"handler", "generic"}

\* the columns of the standard table (the serial wid is left out)
Columns ==
    { <<"id">>, <<"name">>, <<"data">>, <<"created", "at">>,
      <<"updated", "at">>, <<"deleted", "at">> }

Null == <<"null">>

Max(a, b) == IF a >= b THEN a ELSE b
Min(a, b) == IF a <= b THEN a ELSE b

\* v || d : undefined, 0, false and '' are falsy; '0' is not
OrElse(v, d) ==
    IF v \in {Undefined, Num(0), Bool(FALSE), Str("")} THEN d ELSE v

\* the number Math.max and Math.min make of a number or of a numeral
ToNumber(v) == v[2]

\* Math.max(1, params.page || 1)
effectivePage(obj) ==
    Max(1, ToNumber(OrElse(GetParam(obj, <<"page">>), Num(1))))

\* Math.min(100, Math.max(1, params.limit || 10))
effectiveLimit(obj) ==
    Min(100, Max(1, ToNumber(OrElse(GetParam(obj, <<"limit">>), Num(10)))))

\* variant: the offset counted from the page number itself
pageOffsetFromPage(page, limit) == page * limit

\* (page - 1) * limit
pageOffset(page, limit) == (page - 1) * limit

\* variant: any truthy value of params.deleted taken for true
includesDeletedTruthy(obj) ==
    GetParam(obj, <<"deleted">>) \notin
        {Undefined, Num(0), Bool(FALSE), Str("")}

\* const includeDeleted = params.deleted === true
includesDeleted(obj) == GetParam(obj, <<"deleted">>) = Bool(TRUE)

\* isNull(table.deleted_at)
NotDeleted == Filter(<<"deleted", "at">>, "isNull", Undefined)

\* const column = table[filter.field]; if (!column) continue
IsColumnFilter(filter) == filter.field \in Columns

\* variant: a filter on an unknown field matches no row
buildWhereClauseUnknownMatchesNone(fs, inclDeleted) ==
    (IF ~inclDeleted THEN <<NotDeleted>> ELSE <<>>)
        \o [i \in 1..Len(fs) |->
              IF IsColumnFilter(fs[i]) THEN fs[i]
              ELSE Filter(<<"id">>, "isNull", Undefined)]

\* buildWhereClause(filters, includeDeleted): the list of conditions
buildWhereClause(fs, inclDeleted) ==
    (IF ~inclDeleted THEN <<NotDeleted>> ELSE <<>>)
        \o SelectSeq(fs, IsColumnFilter)

\* variant: the count taken over the whole table
countConditionNone(whereConditions) == <<>>

\* the condition handed to the count query: and(...whereConditions)
countCondition(whereConditions) == whereConditions

\* the value of a column of a row
Cell(row, field) ==
    CASE field = <<"id">> -> Num(row.id)
      [] field = <<"name">> -> Str(row.name)
      [] field = <<"data">> -> <<"json", row.data>>
      [] field = <<"created", "at">> -> Num(row.created_at)
      [] field = <<"updated", "at">> -> Num(row.updated_at)
      [] field = <<"deleted", "at">> ->
           IF row.deleted_at = NullDate THEN Null ELSE Num(row.deleted_at)

\* a bound parameter reaches the backend as text: 5 and '5' are one value
Plain(v) == IF v[1] = "numeral" THEN Num(v[2]) ELSE v

\* the lower-cased letters of the strings the inputs hold (ilike ignores
\* case)
Lower == [A |-> <<"a">>, B |-> <<"b">>, a |-> <<"a">>, b |-> <<"b">>]

IsInfix(pat, txt) ==
    \E i \in 0..(Len(txt) - Len(pat)) : SubSeq(txt, i + 1, i + Len(pat)) = pat

\* column ILIKE pattern, for kind in prefix / suffix / substr, on the text
\* columns and string values of the inputs
ilike(kind, cell, v) ==
    /\ cell[1] = "string" /\ v[1] = "string"
    /\ LET txt == Lower[cell[2]]
           pat == Lower[v[2]]
       IN  CASE kind = "prefix" ->
                  Len(pat) <= Len(txt) /\ SubSeq(txt, 1, Len(pat)) = pat
             [] kind = "suffix" ->
                  /\ Len(pat) <= Len(txt)
                  /\ SubSeq(txt, Len(txt) - Len(pat) + 1, Len(txt)) = pat
             [] kind = "substr" -> IsInfix(pat, txt)

\* the row satisfies the condition (a comparison with NULL is not true)
Holds(row, cond) ==
    LET cell == Cell(row, cond.field)
        v == Plain(cond.value)
        numbers == cell[1] = "number" /\ v[1] = "number"
    IN  CASE cond.operator = "isNull" -> cell = Null
          [] cond.operator \in {"eq", "in"} -> cell = v
          [] cond.operator = "ne" -> cell # Null /\ cell # v
          [] cond.operator = "lt" -> numbers /\ cell[2] < v[2]
          [] cond.operator = "gt" -> numbers /\ cell[2] > v[2]
          [] cond.operator = "lte" -> numbers /\ cell[2] <= v[2]
          [] cond.operator = "gte" -> numbers /\ cell[2] >= v[2]
          [] OTHER -> ilike(cond.operator, cell, v)

\* the rows WHERE and(...conditions) keeps
Matching(tbl, conditions) ==
    { r \in tbl : \A i \in 1..Len(conditions) : Holds(r, conditions[i]) }

Order(field, direction) == [field |-> field, direction |-> direction]

\* this.table.created_at ? [desc(this.table.created_at)] : []
DefaultOrder ==
    IF <<"created", "at">> \in Columns
    THEN <<Order(<<"created", "at">>, "desc")>>
    ELSE <<>>

\* one name of the sort expression: 'desc_' + field, or field
sortItem(name) ==
    IF Len(name) >= 2 /\ name[1] = "desc"
    THEN Order(Tail(name), "desc")
    ELSE Order(name, "asc")

IsColumnOrder(o) == o.field \in Columns

\* variant: no fallback when no term of the sort expression resolves
buildOrderByNoFallback(sortParam) ==
    IF OrElse(sortParam, Undefined) = Undefined
    THEN DefaultOrder
    ELSE SelectSeq([i \in 1..Len(sortParam[2]) |-> sortItem(sortParam[2][i])],
                   IsColumnOrder)

\* buildOrderBy(sortParam)
buildOrderBy(sortParam) ==
    IF OrElse(sortParam, Undefined) = Undefined
    THEN DefaultOrder
    ELSE LET sorts == sortParam[2]
             orderBy == SelectSeq([i \in 1..Len(sorts) |-> sortItem(sorts[i])],
                                  IsColumnOrder)
         IN  IF Len(orderBy) > 0 THEN orderBy ELSE DefaultOrder

IsColumn(name) == name \in Columns

\* buildSelect(selectParam): the columns selected, in the order their keys
\* were first set; <<>> stands for undefined
buildSelect(selectParam) ==
    IF OrElse(selectParam, Undefined) = Undefined
    THEN <<>>
    ELSE LET found == SelectSeq(selectParam[2], IsColumn)
         IN  SelectSeq([i \in 1..Len(found) |->
                          IF \E j \in 1..(i - 1) : found[j] = found[i]
                          THEN <<>> ELSE found[i]],
                       IsColumn)

\* the place of a column value in the order of its type; NULL sorts as
\* larger than every value
NameRank == [A |-> 1, B |-> 2]

SortKey(row, field) ==
    CASE field = <<"id">> -> <<0, row.id>>
      [] field = <<"name">> -> <<0, NameRank[row.name]>>
      [] field = <<"created", "at">> -> <<0, row.created_at>>
      [] field = <<"updated", "at">> -> <<0, row.updated_at>>
      [] field = <<"deleted", "at">> ->
           IF row.deleted_at = NullDate THEN <<1, 0>> ELSE <<0, row.deleted_at>>
      [] OTHER -> <<0, 0>>

KeyLess(x, y) == x[1] < y[1] \/ (x[1] = y[1] /\ x[2] < y[2])

\* ORDER BY orderBy puts r strictly before q
Before(r, q, orderBy) ==
    \E i \in 1..Len(orderBy) :
      /\ \A j \in 1..(i - 1) :
            SortKey(r, orderBy[j].field) = SortKey(q, orderBy[j].field)
      /\ IF orderBy[i].direction = "asc"
         THEN KeyLess(SortKey(r, orderBy[i].field), SortKey(q, orderBy[i].field))
         ELSE KeyLess(SortKey(q, orderBy[i].field), SortKey(r, orderBy[i].field))

\* SELECT ... ORDER BY orderBy: every order of S the clause allows
RECURSIVE Ordered(_, _)
Ordered(S, orderBy) ==
    IF S = {} THEN { <<>> }
    ELSE UNION { { <<r>> \o t : t \in Ordered(S \ {r}, orderBy) } :
                 r \in { q \in S : \A x \in S : ~Before(x, q, orderBy) } }

\* ... LIMIT limit OFFSET offset
LimitOffset(rows, limit, offset) ==
    SubSeq(rows, offset + 1, Min(offset + limit, Len(rows)))

\* db.select(selectFields): the selected columns of each row
Project(rows, selectFields) ==
    [i \in 1..Len(rows) |->
        [c \in { selectFields[j] : j \in 1..Len(selectFields) } |->
            Cell(rows[i], c)]]

\* the filter compiler the engine imports
compileFilters(kind, obj) ==
    IF kind = "handler" THEN fromQueryParams(obj) ELSE gFromQueryParams(obj)

\* what the backend does with the queries of one call: it answers them,
\* or the data query fails, or the count query fails
Faults == {"none", "data", "count"}

\* variant: the catch block keeps the rows the data query returned
onQueryFailureKeepData(data) ==
    [outcome |-> "caught", records |-> data, record_count |-> 0]

\* the catch block of findMany: the error is logged and the empty result
\* returned, whatever the query that did answer returned
onQueryFailure(data) ==
    [outcome |-> "caught", records |-> <<>>, record_count |-> 0]

\* findMany(params): the results it may return under the fault
findMany(kind, obj, tbl, fault) ==
    LET page == effectivePage(obj)
        limit == effectiveLimit(obj)
        offset == pageOffset(page, limit)
        whereConditions ==
            buildWhereClause(compileFilters(kind, obj), includesDeleted(obj))
        orderBy == buildOrderBy(GetParam(obj, <<"sort">>))
        selectFields == buildSelect(GetParam(obj, <<"select">>))
        plan == [op |-> "findMany", kind |-> kind, fault |-> fault,
                 limit |-> limit, offset |-> offset, where |-> whereConditions,
                 orderBy |-> orderBy,
                 select |-> IF kind = "handler" THEN selectFields ELSE <<>>]
        data(rows) == IF plan.select # <<>>
                      THEN Project(LimitOffset(rows, limit, offset), plan.select)
                      ELSE LimitOffset(rows, limit, offset)
    IN  CASE fault = "none" ->
               { [outcome |-> "ok",
                  records |-> data(rows),
                  record_count |->
                    Cardinality(Matching(tbl, countCondition(whereConditions)))]
                 @@ plan :
                 rows \in Ordered(Matching(tbl, whereConditions), orderBy) }
          [] fault = "count" ->
               { onQueryFailure(data(rows)) @@ plan :
                 rows \in Ordered(Matching(tbl, whereConditions), orderBy) }
          [] fault = "data" -> { onQueryFailure(<<>>) @@ plan }

\* how count ends: the catch block logs the error and rethrows it
countOutcome(fault) == IF fault = "none" THEN "ok" ELSE "throw"

\* count(params): the number it returns, or the backend's error rethrown
count(kind, obj, tbl, fault) ==
    LET whereConditions ==
            buildWhereClause(compileFilters(kind, obj), includesDeleted(obj))
    IN  [op |-> "count", kind |-> kind, fault |-> fault,
         where |-> whereConditions,
         outcome |-> countOutcome(fault),
         record_count |-> IF fault = "none"
                          THEN Cardinality(Matching(tbl, whereConditions))
                          ELSE 0]

\* parseInt of a numeral
parseInt(v) == Num(v[2])

\* obj = {...obj, ...entries}
RECURSIVE Assign(_, _)
Assign(obj, entries) ==
    IF entries = <<>> THEN obj
    ELSE Assign(SetParam(obj, Head(entries).key, Head(entries).value),
                Tail(entries))

\* parseQueryParams(query) of the routes
parseQueryParams(q) ==
    Assign(<< Entry(<<"page">>,
                    IF OrElse(GetParam(q, <<"page">>), Undefined) # Undefined
                    THEN parseInt(GetParam(q, <<"page">>)) ELSE Undefined),
              Entry(<<"limit">>,
                    IF OrElse(GetParam(q, <<"limit">>), Undefined) # Undefined
                    THEN parseInt(GetParam(q, <<"limit">>)) ELSE Undefined),
              Entry(<<"sort">>, GetParam(q, <<"sort">>)),
              Entry(<<"select">>, GetParam(q, <<"select">>)),
              Entry(<<"deleted">>,
                    Bool(GetParam(q, <<"deleted">>) = Str("true"))) >>,
           q)

----------------------------------------------------------------------------
(* Inputs of the query planner: tables, params objects and HTTP queries    *)

MaxActive == 12       \* rows with deleted_at NULL a table may hold
MaxDeleted == 1       \* soft-deleted rows a table may hold

\* a table of n active and d soft-deleted rows, created one per tick
StoreRows(n, d) ==
    { [id |-> i,
       name |-> IF i % 2 = 1 THEN "A" ELSE "B",
       data |-> EmptyData,
       created_at |-> i,
       updated_at |-> i,
       deleted_at |-> IF i > n THEN i + 1 ELSE NullDate] : i \in 1..(n + d) }

\* the entry of a key, none when the caller leaves the key out
Opt(key, v) == IF v = Undefined THEN <<>> ELSE <<Entry(key, v)>>

PageInputs == {Undefined, Num(-1), Num(0), Num(1), Num(2), Num(3)}
LimitInputs ==
    {Undefined, Num(-5), Num(0), Num(1), Num(5), Num(100), Num(101)}
DeletedInputs == {Undefined, Bool(TRUE), Bool(FALSE), Str("true")}

\* sort, select and filter entries a caller adds
OtherEntries ==
    { <<>>,
      <<Entry(<<"sort">>, Csv(<< <<"name">>, <<"desc", "id">>, <<"bogus">> >>))>>,
      <<Entry(<<"sort">>, Csv(<< <<"bogus">>, <<"desc", "bogus">>, <<"desc", "">> >>))>>,
      <<Entry(<<"sort">>, Csv(<< <<"created", "at">>, <<"desc">> >>))>>,
      <<Entry(<<"sort">>, Str(""))>>,
      <<Entry(<<"select">>, Csv(<< <<"id">>, <<"name">>, <<"bogus">> >>))>>,
      <<Entry(<<"name">>, Str("A"))>>,
      <<Entry(<<"created", "at", "gt">>, Num(2))>>,
      <<Entry(<<"gt", "created", "at">>, Num(2))>>,
      <<Entry(<<"name", "prefix">>, Str("b")), Entry(<<"bogus">>, Num(1))>> }

\* params objects of direct calls
DirectParams ==
    { Opt(<<"page">>, pg) \o Opt(<<"limit">>, l) :
        pg \in PageInputs, l \in LimitInputs }
    \cup
    { Opt(<<"deleted">>, d) \o x \o pl :
        d \in DeletedInputs, x \in OtherEntries,
        pl \in { <<>>, <<Entry(<<"page">>, Num(2)), Entry(<<"limit">>, Num(5))>> } }

\* req.query objects: every value is a string
HttpQueries ==
    { <<>>,
      <<Entry(<<"deleted">>, Str("true"))>>,
      <<Entry(<<"deleted">>, Str("false"))>>,
      <<Entry(<<"page">>, NumStr(2)), Entry(<<"limit">>, NumStr(5))>>,
      <<Entry(<<"limit">>, NumStr(0)), Entry(<<"deleted">>, Str("true"))>>,
      <<Entry(<<"name">>, Str("A")), Entry(<<"deleted">>, Str("true")),
        Entry(<<"page">>, NumStr(1))>> }

----------------------------------------------------------------------------
(* The offline synchronisation service (src/src/services/offline-sync.ts): *)
(* its state after construction                                             *)

\* the number of executeOperation calls made
MaxOps == 2

\* the operations handed to executeOperation, named in the order of the calls
OpIds == 1..MaxOps

\* the syncPendingOperations passes that can be running at the same time
PassIds == {1, 2}

\* an executeOperation call that has not been made
NoExec == [pc |-> "idle", attempts |-> 0, outcome |-> "none"]

\* a pass that is not running
NoPass == [pc |-> "idle", pendingOps |-> <<>>, i |-> 0]

\* the fields of a new OfflineSyncService; the backend starts reachable
SyncInit ==
    /\ isOnline = TRUE
    /\ operations = <<>>
    /\ server = "up"
    /\ delivered = [k \in OpIds |-> 0]
    /\ execs = [k \in OpIds |-> NoExec]
    /\ passes = [p \in PassIds |-> NoPass]
    /\ ping = "idle"

----------------------------------------------------------------------------
(* The state after construction, and the specification *)

Init ==
    /\ engine \in Engines
    /\ registeredModels = {}
    /\ registeredTables = {}
    /\ dbTables = {}
    /\ table = {}
    /\ uuidCount = 0
    /\ clock = 1
    /\ gtable = {}
    /\ gidCount = 0
    /\ last = NoCall
    /\ inflight = [p \in Procs |-> Idle]
    /\ query = <<>>
    /\ params = <<>>
    /\ filters = <<>>
    /\ result = NoResult
    /\ SyncInit

\* the arguments drawn for a call on model m: a call on a model that is not
\* registered throws before it reads them, so one choice stands for all
ArgsOf(m, S) == IF Registered(m) THEN S ELSE {CHOOSE x \in S : TRUE}

Next ==
    \/ \E m \in Schemas : Register(m)
    \/ \E m \in ModelNames :
         \/ \E input \in ArgsOf(m, CreateInputs) : Create(m, input)
         \/ \E ws \in ArgsOf(m, Workspaces), id \in ArgsOf(m, KnownIds) :
               Get(m, ws, id)
         \/ \E ws \in ArgsOf(m, Workspaces) : GetAll(m, ws)
         \/ \E ws \in ArgsOf(m, Workspaces), id \in ArgsOf(m, KnownIds),
               patch \in ArgsOf(m, Patches) : Update(m, ws, id, patch)
         \/ \E ws \in ArgsOf(m, Workspaces), id \in ArgsOf(m, KnownIds) :
               Delete(m, ws, id)
    \/ \E input \in GCreateInputs : GCreate(input)
    \/ \E id \in GKnownIds, includeDeleted \in BOOLEAN :
          GFindById(id, includeDeleted)
    \/ \E id \in GKnownIds, patch \in Patches : GUpdate(id, patch)
    \/ \E id \in GKnownIds : GDelete(id)

Spec == Init /\ [][Next]_vars

----------------------------------------------------------------------------
(* The versioned engine with callers whose updates interleave *)

InitConc == Init /\ engine = "versioned"

NextConc ==
    \/ \E m \in Schemas : Register(m)
    \/ \E m \in ModelNames, input \in CreateInputs : Create(m, input)
    \/ \E p \in Procs, m \in ModelNames, ws \in Workspaces, id \in KnownIds,
          patch \in Patches : UpdateResolve(p, m, ws, id, patch)
    \/ \E p \in Procs : UpdateInsert(p)

SpecConc == InitConc /\ [][NextConc]_vars

----------------------------------------------------------------------------
(* The query planner applied to a table and a params object, or to the     *)
(* query of an HTTP request.  The functions read the table and write        *)
(* nothing: one call is made on each input drawn.                           *)

FindMany(kind, fault) ==
    /\ result = NoResult
    /\ \E r \in findMany(kind, params, gtable, fault) : result' = r
    /\ UNCHANGED <<dbTables, syncVars, query, params, filters, inflight>>
    /\ UNCHANGED <<engine, registeredModels, registeredTables, table,
                   uuidCount, clock, gtable, gidCount, last>>

Count(kind, fault) ==
    /\ result = NoResult
    /\ result' = count(kind, params, gtable, fault)
    /\ UNCHANGED <<dbTables, syncVars, query, params, filters, inflight>>
    /\ UNCHANGED <<engine, registeredModels, registeredTables, table,
                   uuidCount, clock, gtable, gidCount, last>>

\* GET /:model : parseQueryParams(req.query), then engine.findMany
HttpList(fault) ==
    /\ result = NoResult
    /\ params' = parseQueryParams(query)
    /\ \E r \in findMany("generic", parseQueryParams(query), gtable, fault) :
         result' = [r EXCEPT !.op = "GET /"]
    /\ UNCHANGED <<dbTables, syncVars, query, filters, inflight>>
    /\ UNCHANGED <<engine, registeredModels, registeredTables, table,
                   uuidCount, clock, gtable, gidCount, last>>

InitQuery ==
    /\ engine = "generic"
    /\ registeredModels = {}
    /\ registeredTables = {}
    /\ dbTables = {}
    /\ table = {}
    /\ uuidCount = 0
    /\ \E n \in 0..MaxActive, d \in 0..MaxDeleted :
         /\ gtable = StoreRows(n, d)
         /\ gidCount = n + d
         /\ clock = n + d + 1
    /\ last = NoCall
    /\ inflight = [p \in Procs |-> Idle]
    /\ \/ query = <<>> /\ params \in DirectParams
       \/ query \in HttpQueries /\ params = <<>>
    /\ filters = <<>>
    /\ result = NoResult
    /\ SyncInit

NextQuery ==
    \/ \E kind \in QueryEngines, fault \in Faults : FindMany(kind, fault)
    \/ \E kind \in QueryEngines, fault \in {"none", "count"} : Count(kind, fault)
    \/ \E fault \in Faults : HttpList(fault)

SpecQuery == InitQuery /\ [][NextQuery]_vars

----------------------------------------------------------------------------
(* Properties of the versioned engine.                                      *)
(* A property of one call is stated on the step that makes it: `last'` is   *)
(* the call, the unprimed variables the state it was made in.  The calls    *)
(* are calls on a registered model; a call on a model that is not           *)
(* registered throws the configuration error before it resolves anything.   *)

OnRegistered(call) == call.outcome # "throw:not-registered"

\* rows of entity id in workspace ws with deleted_at NULL, read off the table
activeVersions(tbl, ws, id) ==
    { r \in tbl : r.workspaceId = ws /\ r.id = id /\ r.deletedAt = NullDate }

\* the versions a resolution may pick: active, none of them more recent
currentVersions(tbl, ws, id) ==
    { r \in activeVersions(tbl, ws, id) :
        \A q \in activeVersions(tbl, ws, id) : q.updatedAt <= r.updatedAt }

deletedRows(tbl, ws, id) ==
    { r \in tbl : r.workspaceId = ws /\ r.id = id /\ r.deletedAt # NullDate }

ListIds(recs) == { recs[i].id : i \in 1..Len(recs) }
ListRows(recs) == { recs[i] : i \in 1..Len(recs) }

\* C1: after delete(ws,id) returned true, get(ws,id) returns null and no
\* result of getAll(ws) holds a record of that id, whatever the history of
\* the entity.
C1_DeletedAfterDelete ==
    (last.op = "delete" /\ last.outcome = "true") =>
        /\ getLatestRecordById(table, last.ws, last.id) = { <<>> }
        /\ \A res \in getAllResults(table, last.ws) : last.id \notin ListIds(res)

\* C2: a delete(ws,id) that directly follows a delete(ws,id) that returned
\* true returns false and writes nothing; the entity has exactly one row
\* with deletedAt set.
C2_SecondDeleteFails ==
    [][ ( /\ last.op = "delete" /\ last.outcome = "true"
          /\ last'.op = "delete" /\ last'.ws = last.ws /\ last'.id = last.id )
        => ( /\ last'.outcome = "false"
             /\ table' = table
             /\ Cardinality(deletedRows(table', last.ws, last.id)) = 1 )
      ]_vars

\* C3: workspace isolation.  get(w,id) returns a row of workspace w and
\* entity id or null, and null when w holds no row of id; getAll(w) returns
\* rows of workspace w only; update(w,id,..) and delete(w,id) on an id that
\* has no row in w fail and leave the table as it was.
C3_WorkspaceIsolation ==
    [][ OnRegistered(last') =>
        /\ last'.op = "get" =>
             /\ \A r \in ListRows(last'.recs) :
                    r.workspaceId = last'.ws /\ r.id = last'.id
             /\ ({ r \in table : r.workspaceId = last'.ws /\ r.id = last'.id } = {}
                    => last'.outcome = "null")
        /\ last'.op = "getAll" =>
             \A r \in ListRows(last'.recs) : r.workspaceId = last'.ws
        /\ ( /\ last'.op \in {"update", "delete"}
             /\ \E r \in table : r.id = last'.id /\ r.workspaceId # last'.ws
             /\ ~ \E r \in table : r.id = last'.id /\ r.workspaceId = last'.ws )
           => ( /\ last'.outcome \in {"throw:no-active-record", "false"}
                /\ table' = table )
      ]_vars

\* an update aimed, through the wrong workspace, at an entity that is active
\* in another workspace has failed
C3_Witness ==
    /\ last.op = "update"
    /\ last.outcome = "throw:no-active-record"
    /\ \E r \in table :
         r.id = last.id /\ r.workspaceId # last.ws /\ r.deletedAt = NullDate

\* C4: get(ws,id) returns null exactly when no row of (ws,id) has deletedAt
\* null; otherwise it returns one such row, and no such row has a greater
\* updatedAt.
C4_GetReturnsLatestActive ==
    (last.op = "get" /\ OnRegistered(last)) =>
        LET cand == { r \in table : /\ r.workspaceId = last.ws
                                    /\ r.id = last.id
                                    /\ r.deletedAt = NullDate }
        IN  /\ (last.outcome = "null") <=> (cand = {})
            /\ last.outcome = "null" => last.recs = <<>>
            /\ last.outcome # "null" =>
                 /\ last.outcome = "record"
                 /\ Len(last.recs) = 1
                 /\ last.recs[1] \in cand
                 /\ \A r \in cand : r.updatedAt <= last.recs[1].updatedAt

\* get returned a version while an older active version of the entity exists
C4_Witness ==
    /\ last.op = "get"
    /\ last.outcome = "record"
    /\ \E r \in table : /\ r.workspaceId = last.ws /\ r.id = last.id
                        /\ r.deletedAt = NullDate
                        /\ r.updatedAt < last.recs[1].updatedAt

\* C5: getAll(ws) returns exactly one record for every id that has an active
\* row in ws and none for any other id; the record is an active row of the
\* id with the greatest updatedAt, a row get(ws,id) returns.
C5_GetAllLatestPerId ==
    (last.op = "getAll" /\ OnRegistered(last)) =>
        LET active == { r \in table : r.workspaceId = last.ws
                                      /\ r.deletedAt = NullDate }
            recs == last.recs
        IN  /\ ListRows(recs) \subseteq active
            /\ \A id \in { r.id : r \in active } :
                 Cardinality({ i \in 1..Len(recs) : recs[i].id = id }) = 1
            /\ \A i \in 1..Len(recs) :
                 /\ \A r \in active :
                      r.id = recs[i].id => r.updatedAt <= recs[i].updatedAt
                 /\ <<recs[i]>> \in getLatestRecordById(table, last.ws, recs[i].id)

\* getAll returned while an entity of the workspace had two active versions
\* written at different times
C5_Witness ==
    /\ last.op = "getAll"
    /\ \E r, q \in table :
         /\ r.workspaceId = last.ws /\ q.workspaceId = last.ws
         /\ r.id = q.id /\ r.updatedAt < q.updatedAt
         /\ r.deletedAt = NullDate /\ q.deletedAt = NullDate

\* C6: a successful update(ws,id,patch) appends exactly one row: fresh
\* rowId, the id, workspaceId and createdAt of the current version, deletedAt
\* null, name = patch.name when the patch has a name and the prior name
\* otherwise, data = prior data overlaid with patch.data; afterwards get
\* returns the new row and getAll lists it and not the prior version.
C6_UpdateAppendsMergedVersion ==
    [][ (last'.op = "update" /\ last'.outcome = "record") =>
          \E prior \in currentVersions(table, last'.ws, last'.id) :
            LET new == last'.recs[1]
                patch == last'.patch
            IN  /\ table' = table \cup {new}
                /\ new.rowId \notin { r.rowId : r \in table }
                /\ new.id = prior.id
                /\ new.workspaceId = prior.workspaceId
                /\ new.createdAt = prior.createdAt
                /\ new.deletedAt = NullDate
                /\ new.name = IF patch.hasName THEN patch.name ELSE prior.name
                /\ new.data = IF patch.hasData
                              THEN [k \in Keys |-> IF patch.data[k] # Absent
                                                   THEN patch.data[k]
                                                   ELSE prior.data[k]]
                              ELSE prior.data
                /\ getLatestRecordById(table', last'.ws, last'.id) = { <<new>> }
                /\ \A res \in getAllResults(table', last'.ws) :
                     new \in ListRows(res) /\ prior \notin ListRows(res)
      ]_vars

\* C7: all rows of one (workspaceId, id) have the same createdAt, and no
\* step changes the createdAt of a row: it stays the one create wrote.
C7_CreatedAtImmutable ==
    [][ /\ \A r, q \in table' :
             (r.workspaceId = q.workspaceId /\ r.id = q.id)
                => r.createdAt = q.createdAt
        /\ \A r \in table : \E q \in table' :
             q.rowId = r.rowId /\ q.createdAt = r.createdAt
      ]_vars

\* an entity with a version written after its creation and a deleted row
C7_Witness ==
    \E r, q \in table :
      /\ r.workspaceId = q.workspaceId /\ r.id = q.id /\ r.rowId # q.rowId
      /\ q.createdAt < q.updatedAt
      /\ q.deletedAt # NullDate

\* C8: update(ws,id,patch) on an id with no row in ws, or with deleted rows
\* only, throws the no-active-record error and leaves the table as it was.
C8_UpdateOfMissingFails ==
    [][ ( /\ last'.op = "update"
          /\ OnRegistered(last')
          /\ activeVersions(table, last'.ws, last'.id) = {} )
        => ( /\ last'.outcome = "throw:no-active-record"
             /\ table' = table )
      ]_vars

\* an update of an entity all of whose rows are deleted has failed
C8_Witness ==
    /\ last.op = "update"
    /\ last.outcome = "throw:no-active-record"
    /\ deletedRows(table, last.ws, last.id) # {}
    /\ activeVersions(table, last.ws, last.id) = {}

\* the call resolves to no active row: no row of the id (in the workspace,
\* for the versioned engine) has its deleted-at column NULL
gActive(tbl, id) == { r \in tbl : r.id = id /\ r.deleted_at = NullDate }

ResolvesToNothing(call) ==
    \/ /\ call.op \in {"get", "update", "delete"}
       /\ OnRegistered(call)
       /\ activeVersions(table, call.ws, call.id) = {}
    \/ /\ call.op \in {"gfindById", "gupdate", "gdelete"}
       /\ gActive(gtable, call.id) = {}

\* C9: a get, update or delete that resolves to no active row returns null
\* (get, update; findById, update of GenericCrudEngine) or false (delete);
\* it does not throw.
C9_NotFoundIsNullOrFalse ==
    [][ ResolvesToNothing(last') =>
          last'.outcome = IF last'.op \in {"delete", "gdelete"}
                          THEN "false" ELSE "null"
      ]_vars

\* C10: a delete that returns true changes deletedAt and updatedAt of one
\* row, a current version of the entity, and nothing else; a delete that
\* returns false changes nothing; no step removes a row.
C10_DeleteFrame ==
    [][ /\ (last'.op = "delete" /\ last'.outcome = "true") =>
             \E cur \in currentVersions(table, last'.ws, last'.id) :
             \E marked \in table' :
               /\ marked.deletedAt # NullDate
               /\ marked = [cur EXCEPT !.deletedAt = marked.deletedAt,
                                       !.updatedAt = marked.updatedAt]
               /\ table' \ {marked} = table \ {cur}
               /\ Cardinality(table') = Cardinality(table)
        /\ (last'.op = "delete" /\ last'.outcome # "true") => table' = table
        /\ { r.rowId : r \in table } \subseteq { r.rowId : r \in table' }
      ]_vars

\* a delete has returned true on an entity that has another version
C10_Witness ==
    /\ last.op = "delete"
    /\ last.outcome = "true"
    /\ Cardinality({ r \in table : r.workspaceId = last.ws /\ r.id = last.id }) > 1

\* C11: a successful update inserts exactly one row, with a rowId no row
\* had, and leaves every row that existed unchanged in all columns; no step
\* of any operation changes the name or the data of a row.
C11_UpdateFrame ==
    [][ /\ (last'.op = "update" /\ last'.outcome = "record") =>
             /\ table \subseteq table'
             /\ Cardinality(table' \ table) = 1
             /\ table' \ table = { last'.recs[1] }
             /\ last'.recs[1].rowId \notin { r.rowId : r \in table }
        /\ \A r \in table : \E q \in table' :
             q.rowId = r.rowId /\ q.name = r.name /\ q.data = r.data
      ]_vars

\* an update has succeeded with a name and data that differ from those of
\* the version it was derived from, which is still in the table
C11_Witness ==
    /\ last.op = "update"
    /\ last.outcome = "record"
    /\ \E r \in table :
         /\ r.workspaceId = last.ws /\ r.id = last.id
         /\ r.rowId # last.recs[1].rowId
         /\ r.name # last.recs[1].name

\* C12: create, get, getAll, update and delete called with a model name that
\* was never registered throw the not-registered error; the table and the
\* registry are as before, and neither an id nor the clock was drawn.
C12_UnregisteredModelThrows ==
    [][ ( /\ last'.op \in {"create", "get", "getAll", "update", "delete"}
          /\ last'.model \notin registeredModels )
        => ( /\ last'.outcome = "throw:not-registered"
             /\ last'.recs = <<>>
             /\ table' = table
             /\ registeredModels' = registeredModels
             /\ registeredTables' = registeredTables
             /\ uuidCount' = uuidCount
             /\ clock' = clock )
      ]_vars

\* an update on a model that is not registered has thrown while the
\* registry holds another model and the table holds an active row
C12_Witness ==
    /\ last.op = "update"
    /\ last.model \notin registeredModels
    /\ last.outcome = "throw:not-registered"
    /\ registeredModels # {}
    /\ \E r \in table : r.deletedAt = NullDate

\* C13: when two updates of one (workspace, id) have both read the current
\* version before either has inserted, both return a record: each has
\* appended a version built from the same prior version, and the two new
\* rows are in the table with deletedAt null, different rowIds and the same
\* createdAt.  Neither is refused.
C13_ConcurrentUpdatesBothAppend ==
    \A p, q \in Procs :
      ( /\ p # q
        /\ inflight[p].raced
        /\ inflight[q].ws = inflight[p].ws /\ inflight[q].id = inflight[p].id
        /\ inflight[p].pc = "done" /\ inflight[q].pc = "done" )
      => /\ inflight[p].outcome = "record" /\ inflight[q].outcome = "record"
         /\ inflight[p].latest = inflight[q].latest
         /\ LET a == inflight[p].recs[1]
                b == inflight[q].recs[1]
            IN  /\ a.rowId # b.rowId
                /\ a.createdAt = b.createdAt
                /\ a.createdAt = inflight[p].latest[1].createdAt
                /\ {a, b} \subseteq activeVersions(table, inflight[p].ws,
                                                   inflight[p].id)

\* two updates of one entity that read before either inserted have both
\* returned
C13_Witness ==
    \E p, q \in Procs :
      /\ p # q
      /\ inflight[p].raced
      /\ inflight[q].ws = inflight[p].ws /\ inflight[q].id = inflight[p].id
      /\ inflight[p].pc = "done" /\ inflight[q].pc = "done"
      /\ inflight[p].patch # inflight[q].patch

----------------------------------------------------------------------------
(* Properties of the query planner and of the filter compilers *)

\* C14: for every number L given as limit, zero and negative ones included,
\* findMany passes min(100, max(1, L)) to the backend as the limit; for
\* every number Pg given as page the offset it passes is
\* (max(1, Pg) - 1) * limit.
C14_PaginationClamps ==
    (result.op = "findMany") =>
        LET L == GetParam(params, <<"limit">>)
            Pg == GetParam(params, <<"page">>)
        IN  /\ L[1] = "number" => result.limit = Min(100, Max(1, L[2]))
            /\ Pg[1] = "number" =>
                  result.offset = (Max(1, Pg[2]) - 1) * result.limit

\* the call was given a number as page and as limit
PagedCall(call, obj) ==
    /\ call.op = "findMany"
    /\ GetParam(obj, <<"page">>)[1] = "number"
    /\ GetParam(obj, <<"limit">>)[1] = "number"

\* C15: when the backend answers, findMany with a limit L in 1..100 and a
\* page p >= 1 over a table with N rows matching the conditions returns
\* min(L, max(0, N - (p - 1) * L)) records and record_count = N.
C15_PageSizes ==
    ( /\ PagedCall(result, params)
      /\ result.outcome = "ok"
      /\ GetParam(params, <<"limit">>)[2] \in 1..100
      /\ GetParam(params, <<"page">>)[2] >= 1 )
    => LET L == GetParam(params, <<"limit">>)[2]
           p == GetParam(params, <<"page">>)[2]
           N == Cardinality(Matching(gtable, result.where))
       IN  /\ Len(result.records) = Min(L, Max(0, N - (p - 1) * L))
           /\ result.record_count = N

\* the third page of five of twelve matching rows: two records, count 12
C15_Witness ==
    /\ PagedCall(result, params)
    /\ result.outcome = "ok"
    /\ GetParam(params, <<"limit">>) = Num(5)
    /\ GetParam(params, <<"page">>) = Num(3)
    /\ Cardinality(Matching(gtable, result.where)) = 12
    /\ Len(result.records) = 2
    /\ result.record_count = 12

\* the params object without the keys that page, order and project
WithoutPaging(obj) ==
    SelectSeq(obj, LAMBDA e :
        e.key \notin {<<"page">>, <<"limit">>, <<"sort">>, <<"select">>})

\* C16: when the backend answers, the record_count of findMany is the
\* number of rows its data query matches before limit and offset, it is
\* what count returns for the same params and the same table, and it is
\* what findMany returns for the params without page, limit, sort and
\* select.
C16_CountMatchesData ==
    (result.op = "findMany" /\ result.outcome = "ok") =>
        /\ result.record_count = Cardinality(Matching(gtable, result.where))
        /\ result.record_count
               = count(result.kind, params, gtable, "none").record_count
        /\ \A r \in findMany(result.kind, WithoutPaging(params), gtable, "none") :
               r.record_count = result.record_count

\* a filtered second page: six of thirteen rows match, one is returned
C16_Witness ==
    /\ result.op = "findMany"
    /\ result.outcome = "ok"
    /\ WithoutPaging(params) # params
    /\ Cardinality(gtable) = 13
    /\ result.record_count = 6
    /\ Len(result.records) = 1

\* the rows of the table that are not soft-deleted
NotSoftDeleted(tbl) == { r \in tbl : r.deleted_at = NullDate }

\* C17: for every params object given to findMany or count, the condition
\* list starts with the not-deleted predicate when params.deleted is not
\* the boolean true, and then (the backend answering) no soft-deleted row
\* is listed or counted; when params.deleted is true the list holds no
\* such predicate.
C17_NotDeletedPredicate ==
    (result.op \in {"findMany", "count"}) =>
        IF GetParam(params, <<"deleted">>) = Bool(TRUE)
        THEN \A i \in 1..Len(result.where) : result.where[i] # NotDeleted
        ELSE /\ Len(result.where) >= 1
             /\ result.where[1] = NotDeleted
             /\ result.outcome = "ok" =>
                  /\ result.record_count
                         = Cardinality(Matching(NotSoftDeleted(gtable),
                                                result.where))
                  /\ result.op = "findMany" /\ result.select = <<>> =>
                         \A i \in 1..Len(result.records) :
                             result.records[i] \in NotSoftDeleted(gtable)

\* a direct call with deleted: 'true' (a string) on a table holding a
\* soft-deleted row: the predicate is kept and the row is not counted
C17_Witness ==
    /\ result.op \in {"findMany", "count"}
    /\ result.outcome = "ok"
    /\ GetParam(params, <<"deleted">>) = Str("true")
    /\ NotSoftDeleted(gtable) # gtable
    /\ result.where[1] = NotDeleted
    /\ result.record_count = Cardinality(NotSoftDeleted(gtable))
    /\ result.record_count > 0

\* C18: over HTTP, GET /api/{model}?deleted=true lists soft-deleted
\* records too: the params object that parseQueryParams hands to findMany
\* makes it leave the not-deleted predicate out, and for any other or
\* absent deleted value the predicate is kept.
C18_HttpDeletedTrue ==
    (result.op = "GET /") =>
        LET kept == \E i \in 1..Len(result.where) : result.where[i] = NotDeleted
        IN  /\ GetParam(query, <<"deleted">>) = Str("true") =>
                /\ ~kept
                /\ result.outcome = "ok" =>
                       result.record_count
                           = Cardinality(Matching(gtable, result.where))
            /\ GetParam(query, <<"deleted">>) # Str("true") => kept

----------------------------------------------------------------------------
(* The filter compilers applied to a params object, and the serializer     *)
(* followed by the compiler applied to a list of predicates                *)

MaxEntries == 2       \* entries of a params object
MaxPredicates == 2    \* predicates of a list given to toQueryParams

\* keys of params objects: reserved names, plain fields, fields followed
\* by an operator, operators followed by a field
FilterKeys ==
    { <<"page">>, <<"deleted">>, <<"name">>, <<"age", "gt">>,
      <<"name", "substr">>, <<"created", "at", "lte">>, <<"gt", "age">>,
      <<"check", "in">> }

FilterValues == {Num(30), Str("a")}

\* the sequences of at most n elements of S
SeqsUpTo(S, n) == UNION { [1..k -> S] : k \in 0..n }

FilterParams ==
    { obj \in SeqsUpTo({ Entry(k, v) : k \in FilterKeys, v \in FilterValues },
                       MaxEntries) :
        \A i, j \in 1..Len(obj) : i # j => obj[i].key # obj[j].key }

FilterOperatorType ==
    {"eq", "ne", "gt", "lt", "gte", "lte", "in", "prefix", "suffix", "substr"}

\* field names of predicates: a plain name, a name whose last word is an
\* operator, a reserved name
FilterFields == { <<"age">>, <<"check", "in">>, <<"page">> }

PredicateLists ==
    SeqsUpTo({ Filter(f, op, v) :
                 f \in FilterFields, op \in FilterOperatorType,
                 v \in FilterValues },
             MaxPredicates)

\* FilterOp.fromQueryParams(params) of the engine's compiler
FromQueryParams(kind) ==
    /\ result = NoResult
    /\ result' = [op |-> "fromQueryParams", kind |-> kind,
                  filters |-> compileFilters(kind, params)]
    /\ UNCHANGED <<dbTables, syncVars, query, params, filters, inflight>>
    /\ UNCHANGED <<engine, registeredModels, registeredTables, table,
                   uuidCount, clock, gtable, gidCount, last>>

\* FilterOp.fromQueryParams(FilterOp.toQueryParams(filters))
RoundTrip ==
    /\ result = NoResult
    /\ LET serialized == toQueryParams(filters, <<>>)
       IN  result' = [op |-> "roundTrip", params |-> serialized,
                      filters |-> fromQueryParams(serialized)]
    /\ UNCHANGED <<dbTables, syncVars, query, params, filters, inflight>>
    /\ UNCHANGED <<engine, registeredModels, registeredTables, table,
                   uuidCount, clock, gtable, gidCount, last>>

InitFilter ==
    /\ engine = "generic"
    /\ registeredModels = {}
    /\ registeredTables = {}
    /\ dbTables = {}
    /\ table = {}
    /\ uuidCount = 0
    /\ clock = 1
    /\ gtable = {}
    /\ gidCount = 0
    /\ last = NoCall
    /\ inflight = [p \in Procs |-> Idle]
    /\ query = <<>>
    /\ \/ params \in FilterParams /\ filters = <<>>
       \/ params = <<>> /\ filters \in PredicateLists
    /\ result = NoResult
    /\ SyncInit

NextFilter ==
    \/ \E kind \in QueryEngines : FromQueryParams(kind)
    \/ RoundTrip

SpecFilter == InitFilter /\ [][NextFilter]_vars

----------------------------------------------------------------------------
(* Properties of the filter compilers *)

\* the operator suffixes, and the predicate of one entry
OperatorSuffixes ==
    {"prefix", "suffix", "substr", "lte", "gte", "ne", "lt", "gt", "in"}

ExpectedPredicate(e) ==
    IF Len(e.key) >= 2 /\ e.key[Len(e.key)] \in OperatorSuffixes
    THEN Filter(SubSeq(e.key, 1, Len(e.key) - 1), e.key[Len(e.key)], e.value)
    ELSE Filter(e.key, "eq", e.value)

RECURSIVE ExpectedFilters(_)
ExpectedFilters(obj) ==
    IF obj = <<>> THEN <<>>
    ELSE (IF Head(obj).key \in {<<"page">>, <<"limit">>, <<"sort">>,
                                <<"select">>, <<"deleted">>}
          THEN <<>>
          ELSE <<ExpectedPredicate(Head(obj))>>)
             \o ExpectedFilters(Tail(obj))

\* C19: the compiler of each engine turns every params object into one
\* predicate per non-reserved key, in key order: (k without the suffix,
\* the operator, v) when k ends with _ and an operator other than eq,
\* else (k, eq, v); reserved keys yield none.
C19_FilterCompilation ==
    (result.op = "fromQueryParams") => result.filters = ExpectedFilters(params)

\* the predicates of a list, as a set
Triples(fs) == { fs[i] : i \in 1..Len(fs) }

\* C20: serializing any list of predicates with toQueryParams and
\* compiling the outcome with fromQueryParams gives back the same set of
\* (field, operator, value) triples.
C20_FilterRoundTrip ==
    (result.op = "roundTrip") => Triples(result.filters) = Triples(filters)

----------------------------------------------------------------------------
(* Properties of the sort and selection planning and of the error paths    *)

\* the terms of a sort expression, none when it is absent or empty
SortTerms(sortParam) ==
    IF sortParam[1] = "csv" THEN sortParam[2] ELSE <<>>

\* a term without its optional desc_ prefix, and whether it had one
StripDesc(term) ==
    IF Len(term) >= 2 /\ term[1] = "desc" THEN Tail(term) ELSE term
HasDesc(term) == Len(term) >= 2 /\ term[1] = "desc"

RECURSIVE ExpectedOrder(_)
ExpectedOrder(terms) ==
    IF terms = <<>> THEN <<>>
    ELSE (IF StripDesc(Head(terms)) \in Columns
          THEN <<Order(StripDesc(Head(terms)),
                       IF HasDesc(Head(terms)) THEN "desc" ELSE "asc")>>
          ELSE <<>>)
             \o ExpectedOrder(Tail(terms))

NamedColumns(selectParam) ==
    IF selectParam[1] = "csv"
    THEN { selectParam[2][j] : j \in 1..Len(selectParam[2]) } \cap Columns
    ELSE {}

\* the columns the i-th record of a result carries: those of the select
\* list handed to the backend, every declared column when none was handed
CarriedColumns(res, i) ==
    IF res.select # <<>> THEN DOMAIN res.records[i] ELSE Columns

\* C22: when params.select names at least one declared column, every
\* record findMany returns carries exactly the named columns that exist
\* in the table; when select is absent every record carries every
\* declared column.  For both engines.
C22_Selection ==
    (result.op = "findMany" /\ result.outcome = "ok") =>
        LET selectParam == GetParam(params, <<"select">>)
        IN  \A i \in 1..Len(result.records) :
              /\ NamedColumns(selectParam) # {} =>
                    CarriedColumns(result, i) = NamedColumns(selectParam)
              /\ selectParam = Undefined =>
                    CarriedColumns(result, i) = Columns

\* C23: when the backend fails during count(params), count does not
\* propagate the failure: it resolves to 0, in both engines.
C23_CountSwallowsFailure ==
    (result.op = "count" /\ result.fault # "none") =>
        (result.outcome = "ok" /\ result.record_count = 0)

\* C24: when the data query or the count query of findMany fails, findMany
\* does not reject: it resolves to no records and record_count 0, also
\* when the other query returned rows.
C24_FindManySwallowsFailure ==
    (result.op = "findMany" /\ result.fault # "none") =>
        /\ result.outcome = "caught"
        /\ result.records = <<>>
        /\ result.record_count = 0

\* the count query failed while rows matched the data query
C24_Witness ==
    /\ result.op = "findMany"
    /\ result.fault = "count"
    /\ Cardinality(Matching(gtable, result.where)) >= 2
    /\ result.outcome = "caught"
    /\ result.records = <<>>

----------------------------------------------------------------------------
(* The mutating operations over a backend that may reject a statement.     *)
(* CrudOperations awaits its statements with no try/catch around them;     *)
(* GenericCrudEngine and CrudHandler wrap each operation in try/catch.     *)

MaxBulk == 2          \* items of one bulkCreate

\* the statement of an operation that fails: the SELECT it starts with, or
\* the INSERT / UPDATE it ends with
Statements == {"read", "write"}

\* register(modelName, schema): both maps are set, then CREATE TABLE IF NOT
\* EXISTS is rejected and the error is rethrown
RegisterFault(m) ==
    /\ engine = "versioned"
    /\ registeredModels' = registeredModels \cup {m}
    /\ registeredTables' = registeredTables \cup {m}
    /\ last' = FaultCall(m, "register", 0, NoSuchId, "write", "throw:backend")
    /\ UNCHANGED <<dbTables, syncVars, queryVars, inflight>>
    /\ UNCHANGED <<engine, table, uuidCount, clock, gtable, gidCount>>

\* CrudOperations.create: the INSERT is rejected
CreateFault(m, input) ==
    /\ engine = "versioned"
    /\ Registered(m)
    /\ last' = FaultCall(m, "create", input.workspaceId, NoSuchId, "write",
                         "throw:backend")
    /\ UNCHANGED <<dbTables, syncVars, queryVars, inflight>>
    /\ UNCHANGED <<engine, registeredModels, registeredTables, table,
                   uuidCount, clock, gtable, gidCount>>

\* CrudOperations.update: getLatestRecordById is rejected, or it finds the
\* active record and the INSERT of the new version is rejected
UpdateFault(m, ws, id, at) ==
    /\ engine = "versioned"
    /\ Registered(m)
    /\ at = "write" => <<>> \notin getLatestRecordById(table, ws, id)
    /\ last' = FaultCall(m, "update", ws, id, at, "throw:backend")
    /\ UNCHANGED <<dbTables, syncVars, queryVars, inflight>>
    /\ UNCHANGED <<engine, registeredModels, registeredTables, table,
                   uuidCount, clock, gtable, gidCount>>

\* CrudOperations.delete: getLatestRecordById is rejected, or it finds the
\* active record and the UPDATE setting deletedAt is rejected
DeleteFault(m, ws, id, at) ==
    /\ engine = "versioned"
    /\ Registered(m)
    /\ at = "write" => <<>> \notin getLatestRecordById(table, ws, id)
    /\ last' = FaultCall(m, "delete", ws, id, at, "throw:backend")
    /\ UNCHANGED <<dbTables, syncVars, queryVars, inflight>>
    /\ UNCHANGED <<engine, registeredModels, registeredTables, table,
                   uuidCount, clock, gtable, gidCount>>

\* variant: the catch blocks answer null
gOnErrorMasked(op) == IF op = "gdelete" THEN "false" ELSE "null"

\* the catch block of an operation of GenericCrudEngine / CrudHandler:
\* create, update and bulkCreate log and rethrow, delete logs and
\* returns false
gOnError(op) == IF op = "gdelete" THEN "false" ELSE "throw:backend"

GCreateFault ==
    /\ engine = "generic"
    /\ last' = FaultCall("", "gcreate", 0, NoSuchId, "write", gOnError("gcreate"))
    /\ UNCHANGED <<dbTables, syncVars, queryVars, inflight>>
    /\ UNCHANGED <<engine, registeredModels, registeredTables, table,
                   uuidCount, clock, gtable, gidCount>>

\* update: the SELECT of the parent is rejected, or the parent is found
\* and the INSERT is rejected
GUpdateFault(id, at) ==
    /\ engine = "generic"
    /\ at = "write" => gMatching(gtable, id, FALSE) # {}
    /\ last' = FaultCall("", "gupdate", 0, id, at, gOnError("gupdate"))
    /\ UNCHANGED <<dbTables, syncVars, queryVars, inflight>>
    /\ UNCHANGED <<engine, registeredModels, registeredTables, table,
                   uuidCount, clock, gtable, gidCount>>

\* delete: the UPDATE setting deleted_at is rejected
GDeleteFault(id) ==
    /\ engine = "generic"
    /\ last' = FaultCall("", "gdelete", 0, id, "write", gOnError("gdelete"))
    /\ UNCHANGED <<dbTables, syncVars, queryVars, inflight>>
    /\ UNCHANGED <<engine, registeredModels, registeredTables, table,
                   uuidCount, clock, gtable, gidCount>>

\* the lists of items given to bulkCreate
GBulkInputs == UNION { [1..n -> GCreateInputs] : n \in 1..MaxBulk }

\* the readings of new Date() while the n items are mapped
BulkTimes(n) ==
    { ts \in [1..n -> 1..MaxTime] :
        /\ ts[1] \in Readings
        /\ \A k \in 1..(n - 1) : ts[k + 1] \in {ts[k], ts[k] + 1} }

\* bulkCreate(items): one INSERT of all the rows, or none when the backend
\* rejects it
GBulkCreate(items, fault) ==
    /\ engine = "generic"
    /\ gidCount + Len(items) <= MaxGIds
    /\ IF fault = "none"
       THEN \E ts \in BulkTimes(Len(items)) :
              LET rows == [k \in 1..Len(items) |->
                             gCreateRow(items[k], gidCount + k, ts[k])]
              IN  /\ gtable' = gtable \cup { rows[k] : k \in 1..Len(items) }
                  /\ gidCount' = gidCount + Len(items)
                  /\ clock' = ts[Len(items)]
                  /\ last' = Call("gbulkCreate", 0, NoSuchId, NoPatch,
                                  "records", rows)
       ELSE /\ last' = FaultCall("", "gbulkCreate", 0, NoSuchId, "write",
                                 gOnError("gbulkCreate"))
            /\ UNCHANGED <<gtable, gidCount, clock>>
    /\ UNCHANGED <<dbTables, syncVars, queryVars, inflight>>
    /\ UNCHANGED <<engine, registeredModels, registeredTables, table, uuidCount>>

NextFault ==
    \/ \E m \in Schemas : Register(m)
    \/ \E m \in Schemas, input \in CreateInputs : Create(m, input)
    \/ \E m \in Schemas, ws \in Workspaces, id \in KnownIds, patch \in Patches :
          Update(m, ws, id, patch)
    \/ \E m \in Schemas, ws \in Workspaces, id \in KnownIds : Delete(m, ws, id)
    \/ \E m \in Schemas : RegisterFault(m)
    \/ \E m \in Schemas, input \in CreateInputs : CreateFault(m, input)
    \/ \E m \in Schemas, ws \in Workspaces, id \in KnownIds, at \in Statements :
          UpdateFault(m, ws, id, at)
    \/ \E m \in Schemas, ws \in Workspaces, id \in KnownIds, at \in Statements :
          DeleteFault(m, ws, id, at)
    \/ \E input \in GCreateInputs : GCreate(input)
    \/ \E id \in GKnownIds, patch \in Patches : GUpdate(id, patch)
    \/ \E id \in GKnownIds : GDelete(id)
    \/ GCreateFault
    \/ \E id \in GKnownIds, at \in Statements : GUpdateFault(id, at)
    \/ \E id \in GKnownIds : GDeleteFault(id)
    \/ \E items \in GBulkInputs, fault \in {"none", "write"} :
          GBulkCreate(items, fault)

SpecFault == Init /\ [][NextFault]_vars

----------------------------------------------------------------------------
(* Properties of the error paths of the mutating operations *)

\* C25: a backend failure during create, update or bulkCreate ends the
\* call with the backend's error (no record, null or empty list returned)
\* and nothing is written, in the versioned engine and in the single-row
\* engines.
C25_MutatorsPropagateFailure ==
    [][ ( /\ last'.fault # "none"
          /\ last'.op \in {"create", "update", "gcreate", "gupdate",
                           "gbulkCreate"} )
        => ( /\ last'.outcome = "throw:backend"
             /\ last'.recs = <<>>
             /\ table' = table
             /\ gtable' = gtable ) ]_vars

\* the INSERT of an update of an active record of the single-row engine
\* was rejected
C25_Witness ==
    /\ last.op = "gupdate"
    /\ last.fault = "write"
    /\ last.outcome = "throw:backend"
    /\ gMatching(gtable, last.id, FALSE) # {}

\* C26: delete returns false only when no active row matched the id, and
\* a backend fault during delete is a rejection of the call, not false;
\* in the versioned engine and in the single-row engines.
C26_DeleteFalseOnlyWhenNoMatch ==
    [][ /\ (last'.op = "delete" /\ last'.model \in registeredModels) =>
             /\ last'.outcome = "false" =>
                  getLatestRecordById(table, last'.ws, last'.id) = { <<>> }
             /\ last'.fault # "none" => last'.outcome = "throw:backend"
        /\ last'.op = "gdelete" =>
             /\ last'.outcome = "false" =>
                  gMatching(gtable, last'.id, FALSE) = {}
             /\ last'.fault # "none" => last'.outcome = "throw:backend"
      ]_vars

----------------------------------------------------------------------------
(* Properties of the single-row engine and of the entity life cycle *)

\* C27: in the single-row engines update(id, patch) on an active record
\* changes the record in place: no row is added, the returned record
\* keeps the id, and a following findById(id) returns the record with the
\* patch applied.
C27_UpdateInPlace ==
    [][ (last'.op = "gupdate" /\ last'.outcome = "record") =>
            /\ Cardinality(gtable') = Cardinality(gtable)
            /\ last'.recs[1].id = last'.id
            /\ \A res \in gLimit1(gMatching(gtable', last'.id, FALSE)) :
                 /\ res # <<>>
                 /\ res[1].name = last'.patch.name
                 /\ last'.patch.hasData => res[1].data = last'.patch.data
      ]_vars

C29_CreateEntersActive ==
    [][ (last'.op = "create" /\ last'.outcome = "record") =>
          LET row == last'.recs[1]
          IN  /\ row \notin table
              /\ table' = table \cup {row}
              /\ \A r \in table : r.id # row.id /\ r.rowId # row.rowId
              /\ row.createdAt = row.updatedAt
              /\ row.deletedAt = NullDate
              /\ row.workspaceId = last'.ws
              /\ \E input \in CreateInputs :
                   /\ input.workspaceId = row.workspaceId
                   /\ row.name = input.name
                   /\ row.data = IF input.hasData THEN input.data ELSE EmptyData
              /\ getLatestRecordById(table', row.workspaceId, row.id)
                   = { <<row>> }
      ]_vars

\* a create without data has returned while the table held another entity
C29_Witness ==
    /\ last.op = "create"
    /\ last.outcome = "record"
    /\ last.recs[1].data = EmptyData
    /\ last.recs[1] \in table
    /\ \E r \in table : r.id # last.recs[1].id

\* the entity was created and none of its rows is active: get returns null
Deleted(tbl, ws, id) ==
    /\ \E r \in tbl : r.workspaceId = ws /\ r.id = id
    /\ activeVersions(tbl, ws, id) = {}

\* C30: no call restores an entity.  Once an entity is Deleted, every
\* create, update, delete, get and getAll, executed one after the other,
\* leaves it Deleted, and a get of it returns null.
C30_NoRestore ==
    [][ \A r \in table :
          activeVersions(table, r.workspaceId, r.id) = {} =>
            /\ activeVersions(table', r.workspaceId, r.id) = {}
            /\ ( /\ last'.op = "get" /\ OnRegistered(last')
                 /\ last'.ws = r.workspaceId /\ last'.id = r.id )
               => last'.outcome = "null"
      ]_vars

\* an update aimed at a Deleted entity has failed, and the entity is still
\* Deleted
C30_Witness ==
    /\ last.op = "update"
    /\ last.outcome = "throw:no-active-record"
    /\ Deleted(table, last.ws, last.id)

----------------------------------------------------------------------------
(* The offline synchronisation service: OfflineSyncService                  *)
(* (src/src/services/offline-sync.ts).  Every `await` of a request is a     *)
(* point where the other callbacks of the service can run, so each method   *)
(* is one action up to its request and one action from the response on.     *)

\* getPendingOperations(), and the filter at the head of a sync pass
getPendingOperations(ops) == SelectSeq(ops, LAMBDA op : ~op.synced)

\* the operations of a queue, by name
idsOf(ops) == [i \in 1..Len(ops) |-> ops[i].id]

queueOperationSynced(ops, k) == Append(ops, [id |-> k, synced |-> TRUE])

\* this.operations.push(offlineOp), the operation built with synced: false
queueOperation(ops, k) == Append(ops, [id |-> k, synced |-> FALSE])

\* operation.synced = true on the queued object
markSynced(ops, k) ==
    [i \in 1..Len(ops) |->
        IF ops[i].id = k THEN [ops[i] EXCEPT !.synced = TRUE] ELSE ops[i]]

\* the backend accepts a request for operation k
accept(d, k) == [d EXCEPT ![k] = d[k] + 1]

\* how a request sent now ends: the backend accepts it, or the connection
\* is refused (ECONNREFUSED / ENOTFOUND), or it fails in another way (a
\* timeout, an error status)
Responses == IF server = "up" THEN {"ok"} ELSE {"refused", "error"}

startedPassNone(ops) == NoPass

\* syncPendingOperations up to its first await: the pending operations are
\* collected, and unless there are none the first one is sent
startedPass(ops) ==
    IF getPendingOperations(ops) = <<>>
    THEN NoPass
    ELSE [pc |-> "sending", pendingOps |-> idsOf(getPendingOperations(ops)),
          i |-> 1]

\* the loop of syncPendingOperations moving to its next operation
nextOperation(pass) ==
    IF pass.i = Len(pass.pendingOps) THEN NoPass
    ELSE [pass EXCEPT !.i = pass.i + 1]

FreePasses == { p \in PassIds : passes[p].pc = "idle" }

\* this.syncPendingOperations(), called and not awaited
SyncPendingOperations ==
    /\ FreePasses # {}
    /\ LET p == CHOOSE q \in FreePasses : \A o \in FreePasses : q <= o
       IN  passes' = [passes EXCEPT ![p] = startedPass(operations)]

\* executeOperation up to the await of its request
ExecStart(k) ==
    /\ execs[k].pc = "idle"
    /\ \A j \in OpIds : j < k => execs[j].pc # "idle"
    /\ IF isOnline
       THEN /\ execs' = [execs EXCEPT ![k] =
                            [pc |-> "sending", attempts |-> 1,
                             outcome |-> "none"]]
            /\ UNCHANGED operations
       ELSE /\ operations' = queueOperation(operations, k)
            /\ execs' = [execs EXCEPT ![k] =
                            [pc |-> "done", attempts |-> 0,
                             outcome |-> "pending"]]
    /\ UNCHANGED <<isOnline, server, delivered, passes, ping>>
    /\ UNCHANGED coreVars

\* executeOperation from the response of its request on
ExecResponse(k, r) ==
    /\ execs[k].pc = "sending"
    /\ r \in Responses
    /\ IF r = "ok"
       THEN /\ delivered' = accept(delivered, k)
            /\ execs' = [execs EXCEPT ![k].pc = "done",
                                      ![k].outcome = "response"]
            /\ UNCHANGED <<isOnline, operations>>
       ELSE /\ isOnline' = FALSE
            /\ operations' = queueOperation(operations, k)
            /\ execs' = [execs EXCEPT ![k].pc = "done",
                                      ![k].outcome = "pending"]
            /\ UNCHANGED delivered
    /\ UNCHANGED <<server, passes, ping>>
    /\ UNCHANGED coreVars

\* the 30 s interval of setupNetworkDetection sends GET /health
PingFire ==
    /\ ping = "idle"
    /\ ping' = "sending"
    /\ UNCHANGED <<isOnline, operations, server, delivered, execs, passes>>
    /\ UNCHANGED coreVars

\* the callback of setupNetworkDetection from the health response on
PingResponse ==
    /\ ping = "sending"
    /\ ping' = "idle"
    /\ IF server = "up"
       THEN IF ~isOnline
            THEN isOnline' = TRUE /\ SyncPendingOperations
            ELSE UNCHANGED <<isOnline, passes>>
       ELSE isOnline' = FALSE /\ UNCHANGED passes
    /\ UNCHANGED <<operations, server, delivered, execs>>
    /\ UNCHANGED coreVars

\* the 60 s interval of startSyncProcess
TimerFire ==
    /\ isOnline
    /\ SyncPendingOperations
    /\ UNCHANGED <<isOnline, operations, server, delivered, execs, ping>>
    /\ UNCHANGED coreVars

\* a sync pass from the response of the request it awaits on
PassResponse(p, r) ==
    /\ passes[p].pc = "sending"
    /\ r \in Responses
    /\ LET k == passes[p].pendingOps[passes[p].i]
       IN  CASE r = "ok" ->
                  /\ delivered' = accept(delivered, k)
                  /\ operations' = markSynced(operations, k)
                  /\ passes' = [passes EXCEPT ![p] = nextOperation(passes[p])]
                  /\ UNCHANGED isOnline
             [] r = "refused" ->
                  /\ isOnline' = FALSE
                  /\ passes' = [passes EXCEPT ![p] = NoPass]
                  /\ UNCHANGED <<delivered, operations>>
             [] r = "error" ->
                  /\ passes' = [passes EXCEPT ![p] = nextOperation(passes[p])]
                  /\ UNCHANGED <<isOnline, delivered, operations>>
    /\ UNCHANGED <<server, execs, ping>>
    /\ UNCHANGED coreVars

\* the backend becomes unreachable, or reachable again
ServerChange ==
    /\ server' = IF server = "up" THEN "down" ELSE "up"
    /\ UNCHANGED <<isOnline, operations, delivered, execs, passes, ping>>
    /\ UNCHANGED coreVars

InitSync == Init /\ engine = "generic"

NextSync ==
    \/ \E k \in OpIds : ExecStart(k)
    \/ \E k \in OpIds, r \in {"ok", "refused", "error"} : ExecResponse(k, r)
    \/ PingFire
    \/ PingResponse
    \/ TimerFire
    \/ \E p \in PassIds, r \in {"ok", "refused", "error"} : PassResponse(p, r)
    \/ ServerChange

SpecSync == InitSync /\ [][NextSync]_vars

\* the timers keep firing and every request sent gets its response
SpecSyncLive ==
    /\ SpecSync
    /\ WF_vars(PingFire)
    /\ WF_vars(PingResponse)
    /\ WF_vars(TimerFire)
    /\ WF_vars(\E k \in OpIds, r \in {"ok", "refused", "error"} :
                  ExecResponse(k, r))
    /\ WF_vars(\E p \in PassIds, r \in {"ok", "refused", "error"} :
                  PassResponse(p, r))

----------------------------------------------------------------------------
(* Properties of the offline synchronisation service *)

\* C31: executeOperation never rejects.  Called while the service is online
\* it sends the request once: on success it returns the response and queues
\* nothing; on failure it marks the service offline.  When the attempt
\* failed, or the service was offline at the call (then nothing is sent),
\* the operation is appended unsynced to the queue and returned pending.
C31_ExecuteOperation ==
    [][\A k \in OpIds :
         /\ (execs[k].pc = "idle" /\ execs'[k].pc # "idle") =>
              IF isOnline
              THEN /\ execs'[k].pc = "sending"
                   /\ execs'[k].attempts = 1
                   /\ operations' = operations
              ELSE /\ execs'[k].pc = "done"
                   /\ execs'[k].attempts = 0
                   /\ execs'[k].outcome = "pending"
                   /\ operations' =
                        Append(operations, [id |-> k, synced |-> FALSE])
                   /\ delivered' = delivered
         /\ (execs[k].pc = "sending" /\ execs'[k].pc = "done") =>
              /\ execs'[k].attempts = 1
              /\ \/ /\ execs'[k].outcome = "response"
                    /\ delivered' = [delivered EXCEPT ![k] = 1]
                    /\ operations' = operations
                    /\ \A i \in 1..Len(operations') : operations'[i].id # k
                 \/ /\ execs'[k].outcome = "pending"
                    /\ isOnline' = FALSE
                    /\ delivered' = delivered
                    /\ operations' =
                         Append(operations, [id |-> k, synced |-> FALSE])
         /\ execs'[k].pc = "done" =>
              execs'[k].outcome \in {"response", "pending"}
      ]_vars

\* one call answered by the backend, one that failed online and was queued
C31_Witness ==
    \E j, k \in OpIds :
        /\ execs[j].outcome = "response"
        /\ execs[k].outcome = "pending" /\ execs[k].attempts = 1
        /\ ~isOnline

\* C32: if from some point on the backend is reachable and accepts every
\* request, then eventually every queued operation has been accepted by the
\* backend and is marked synced, and getPendingOperations() stays empty.
C32_SyncIsLive ==
    <>[](server = "up") =>
        <>[](/\ getPendingOperations(operations) = <<>>
             /\ \A i \in 1..Len(operations) :
                   delivered[operations[i].id] >= 1)

\* every operation was queued while offline and has been synced
C32_Witness ==
    /\ Len(operations) = MaxOps
    /\ \A k \in OpIds : execs[k].attempts = 0
    /\ getPendingOperations(operations) = <<>>

\* C38: the backend accepts each operation at most once.
C38_SentAtMostOnce == \A k \in OpIds : delivered[k] <= 1

\* C39: the queue is replayed in order: no operation is marked synced while
\* an operation queued before it is unsynced, and executeOperation sends no
\* request while operations are pending in the queue.
C39_ReplayInOrder ==
    [][/\ \A i, j \in 1..Len(operations') :
            (i < j /\ operations'[j].synced) => operations'[i].synced
       /\ \A k \in OpIds :
            (execs[k].pc = "idle" /\ execs'[k].pc = "sending") =>
                getPendingOperations(operations) = <<>>
      ]_vars

----------------------------------------------------------------------------
(* Properties of the versioned engine: resolution order, interleavings,    *)
(* registration                                                             *)

\* the active rows of (ws, id) with the greatest updatedAt
newestActive(tbl, ws, id) ==
    { r \in ActiveRows(tbl, ws) :
        /\ r.id = id
        /\ \A q \in ActiveRows(tbl, ws) :
              q.id = id => q.updatedAt <= r.updatedAt }

\* C33: resolving the current row of (workspace, id) is a total order: among
\* the active rows with the greatest updatedAt the one resolved has the
\* greatest createdAt, and the same stored rows always resolve to one row.
C33_ResolveIsTotalOrder ==
    \A ws \in Workspaces, id \in KnownIds :
        /\ Cardinality(getLatestRecordById(table, ws, id)) = 1
        /\ \A res \in getLatestRecordById(table, ws, id) :
              res # <<>> =>
                 \A q \in newestActive(table, ws, id) :
                    q.createdAt <= res[1].createdAt

----------------------------------------------------------------------------
(* Properties of the query planner: filters on unknown fields *)

\* the params object without its i-th entry
WithoutEntry(obj, i) == SubSeq(obj, 1, i - 1) \o SubSeq(obj, i + 1, Len(obj))

\* the entries of a params object that compile to a filter whose field is
\* not a column of the table
UnknownFieldEntries(kind, obj) ==
    { i \in 1..Len(obj) :
        /\ obj[i].key \notin RESERVED_QUERY_PARAMS
        /\ compileFilters(kind, <<obj[i]>>)[1].field \notin Columns }

----------------------------------------------------------------------------
(* Properties of registration *)

\* C40: a register call rejected because CREATE TABLE failed leaves the
\* model unregistered (absent from registeredModels, and failing the
\* registration check of later operations), and registeredModels and
\* registeredTables always hold the same model names.
C40_FailedRegisterLeavesUnregistered ==
    [][ /\ (last'.op = "register" /\ last'.outcome = "throw:backend") =>
              /\ last'.model \notin registeredModels'
              /\ last'.model \notin registeredTables'
        /\ registeredModels' = registeredTables' ]_vars

----------------------------------------------------------------------------
(* CrudOperations.delete as the two statements it awaits, interleaved with  *)
(* the updates and deletes of other callers: the SELECT of                  *)
(* getLatestRecordById (and the return of false when it finds nothing),     *)
(* then the UPDATE ... WHERE row_id = ? AND deleted_at IS NULL.  Each       *)
(* statement is atomic; nothing is held between the two.                    *)

\* validateModelExists, registeredTables.get, getLatestRecordById, and the
\* return of false when no active record is found
DeleteResolve(p, m, ws, id) ==
    /\ engine = "versioned"
    /\ inflight[p].pc = "idle"
    /\ IF ~Registered(m)
       THEN inflight' = [inflight EXCEPT ![p] =
                [Idle EXCEPT !.pc = "done", !.outcome = "throw:not-registered"]]
       ELSE \E active \in getLatestRecordById(table, ws, id) :
              IF active = <<>>
              THEN inflight' = [inflight EXCEPT ![p] =
                       [Idle EXCEPT !.pc = "done", !.ws = ws, !.id = id,
                                    !.outcome = "false"]]
              ELSE inflight' = [inflight EXCEPT ![p] =
                       [Idle EXCEPT !.pc = "deleting", !.ws = ws, !.id = id,
                                    !.latest = active]]
    /\ UNCHANGED <<dbTables, syncVars, queryVars, engine, registeredModels,
                   registeredTables, table, uuidCount, clock, gtable,
                   gidCount, last>>

\* new Date(), the UPDATE of the row read, and the return of
\* result.length > 0
DeleteWrite(p) ==
    /\ engine = "versioned"
    /\ inflight[p].pc = "deleting"
    /\ \E now \in Readings :
         LET rowId == inflight[p].latest[1].rowId
         IN  /\ table' = softDeleteTable(table, rowId, now)
             /\ clock' = now
             /\ inflight' = [inflight EXCEPT
                   ![p].pc = "done",
                   ![p].outcome = IF softDeleteMatched(table, rowId) # {}
                                  THEN "true" ELSE "false"]
    /\ UNCHANGED <<dbTables, syncVars, queryVars, engine, registeredModels,
                   registeredTables, uuidCount, gtable, gidCount, last>>

NextRace ==
    \/ \E m \in Schemas : Register(m)
    \/ \E m \in Schemas, input \in CreateInputs : Create(m, input)
    \/ \E p \in Procs, m \in Schemas, ws \in Workspaces, id \in KnownIds,
          patch \in Patches : UpdateResolve(p, m, ws, id, patch)
    \/ \E p \in Procs : UpdateInsert(p)
    \/ \E p \in Procs, m \in Schemas, ws \in Workspaces, id \in KnownIds :
          DeleteResolve(p, m, ws, id)
    \/ \E p \in Procs : DeleteWrite(p)

SpecRace == InitConc /\ [][NextRace]_vars

----------------------------------------------------------------------------
(* Properties of interleaved updates and deletes *)

\* the rows of entity (ws, id), whatever their state
versionsOf(tbl, ws, id) == { r \in tbl : r.workspaceId = ws /\ r.id = id }

\* caller p has returned from a delete of (ws, id)
DeleteReturned(p, ws, id) ==
    /\ inflight[p].pc = "done"
    /\ inflight[p].ws = ws /\ inflight[p].id = id
    /\ inflight[p].outcome \in {"true", "false"}

\* caller p has returned a record from an update of (ws, id)
UpdateReturned(p, ws, id) ==
    /\ inflight[p].pc = "done"
    /\ inflight[p].ws = ws /\ inflight[p].id = id
    /\ inflight[p].outcome = "record"

\* C35: one update and one delete of the same single-version active entity,
\* in any interleaving: if the delete returned true then, both calls having
\* returned, the entity is deleted: get resolves to null and no row of the
\* id is active.
C35_DeleteWinsOverUpdate ==
    \A p, q \in Procs, ws \in Workspaces, id \in KnownIds :
        ( /\ p # q
          /\ UpdateReturned(p, ws, id)
          /\ DeleteReturned(q, ws, id)
          /\ inflight[q].outcome = "true"
          /\ Cardinality(versionsOf(table, ws, id)) = 2 )
        => /\ getLatestRecordById(table, ws, id) = { <<>> }
           /\ activeVersions(table, ws, id) = {}

\* the values the patches of the two callers supply for key k
Supplied(p, q, k) ==
    { inflight[c].patch.data[k] :
        c \in { d \in {p, q} : /\ inflight[d].patch.hasData
                               /\ inflight[d].patch.data[k] # Absent } }

\* C36: no update is lost: when the updates of one entity, overlapping or
\* not, have all returned a record, the data of the current version holds
\* every key a patch supplied, with a value a patch supplied for it.
C36_NoLostUpdate ==
    \A p, q \in Procs, ws \in Workspaces, id \in KnownIds :
        ( /\ p # q
          /\ UpdateReturned(p, ws, id)
          /\ UpdateReturned(q, ws, id) )
        => \A res \in getLatestRecordById(table, ws, id) :
              /\ res # <<>>
              /\ \A k \in Keys :
                    Supplied(p, q, k) # {} => res[1].data[k] \in Supplied(p, q, k)

\* C37: concurrent deletes of the same single-version active entity, each
\* statement atomic: when all have returned, exactly one has returned true,
\* the others false, and exactly one row has a non-null deletedAt.
C37_ExactlyOneDeleteWins ==
    \A ws \in Workspaces, id \in KnownIds :
        ( /\ Cardinality(versionsOf(table, ws, id)) = 1
          /\ \A p \in Procs : DeleteReturned(p, ws, id)
          /\ \E p \in Procs : inflight[p].latest # <<>> )
        => /\ Cardinality({ p \in Procs : inflight[p].outcome = "true" }) = 1
           /\ Cardinality({ r \in versionsOf(table, ws, id) :
                              r.deletedAt # NullDate }) = 1
           /\ activeVersions(table, ws, id) = {}

\* both callers read the active row before either wrote: one true, one false
C37_Witness ==
    \E ws \in Workspaces, id \in KnownIds :
        /\ Cardinality(versionsOf(table, ws, id)) = 1
        /\ \A p \in Procs : DeleteReturned(p, ws, id) /\ inflight[p].latest # <<>>
        /\ \E p \in Procs : inflight[p].outcome = "false"

====
